---- MODULE Spec2Model ----
(***************************************************************************)
(* Verification model of the pNodes dashboard back end: the two-tier cache *)
(* (redis.service.ts), gossip discovery (pnode.service.ts) and the         *)
(* analytics / map services built on them.                                 *)
(*                                                                         *)
(* Time is wall-clock milliseconds.  Values that cross the remote tier go  *)
(* through JSONstringify / JSONparse.  An exception is a result record     *)
(* with raised = TRUE that propagates until a modelled catch converts it.  *)
(***************************************************************************)
EXTENDS Integers, Sequences, FiniteSets, TLC

VARIABLES
  redisClient,     \* redis.service.ts:11  TRUE iff redisClient is non-null
  redisAvailable,  \* redis.service.ts:12
  conn,            \* link of the ioredis client: never/connected/disconnected/reconnecting
  redisStore,      \* remote tier: prefixed key -> [data, exp]
  localStore,      \* in-process tier (cacheService): key -> [value, exp]
  now,             \* Date.now()
  ops,             \* number of cache-client calls made so far (history)
  last,            \* the last cache-client call and its result (history)
  lastSet,         \* the last set, while only gets have followed it (history)
  downSince,       \* remote tier unavailable ever since the set in lastSet began
  pc,              \* position of the service call in flight ("idle": none)
  stack,           \* continuations of the callers of the running function
  op,              \* the exported service function that was called
  frame,           \* locals of the analytics / map functions awaiting a callee
  disc,            \* discoveredNodes of the running discovery round
  seed,            \* index i of the seed loop
  rv,              \* value returned (or exception thrown) by the last callee
  calls,           \* number of service calls started so far
  ghost,           \* what the call in flight has done so far (history)
  result,          \* outcome of the last completed service call (history)
  isRunning,       \* stats-enrichment.service.ts: let isRunning
  enrichmentInterval, \* handle kept by startStatsEnrichmentJob (0: null)
  timers,          \* interval handles the runtime still fires
  runs,            \* invocations of preFetchAllNodeStats past the guard, in flight
  jobHist,         \* the last invocation of the job and the last stop (history)
  calc,            \* a pure function applied to drawn inputs, with its output
  tasks,           \* two overlapping calls of getAllPNodes: position and locals
  later            \* node lists returned by calls made after both have returned

cacheVars == <<redisClient, redisAvailable, conn, redisStore, localStore, now>>
histVars == <<ops, last, lastSet, downSince>>
svcVars == <<pc, stack, op, frame, disc, seed, rv, calls, ghost, result>>
jobVars == <<isRunning, enrichmentInterval, timers, runs, jobHist>>
ovVars == <<tasks, later>>
sideVars == <<jobVars, calc, ovVars>>
vars == <<cacheVars, histVars, svcVars, sideVars>>

----------------------------------------------------------------------------
(* Bounds of the model *)

TickMs == 30000      \* granularity of the clock
MaxTicks == 2        \* the clock stops after MaxTicks ticks
MaxOps == 3          \* cache-client calls per behaviour of SpecCache
MaxCalls == 2        \* service calls per behaviour
MaxPods == 2         \* records in one gossip response

(* Program constants *)

CACHE_TTL_MS == 30000
CACHE_TTL_MS_ANALYTICS == 60000

REDIS_KEY_PREFIX_GEO == "xandeum:geo:"
REDIS_KEY_PREFIX_NODES == "xandeum:nodes:"
REDIS_KEY_PREFIX_STATS == "xandeum:stats:"
REDIS_KEY_PREFIX_ANALYTICS == "xandeum:analytics:"

CACHE_KEY == "pnodes"
CACHE_KEY_ANALYTICS == "pods_raw_analytics"

\* keyPrefix of the three RedisCacheService instances
nodeCacheService == REDIS_KEY_PREFIX_NODES
statsCacheService == REDIS_KEY_PREFIX_STATS
analyticsCacheService == REDIS_KEY_PREFIX_ANALYTICS

----------------------------------------------------------------------------
(* Results of calls: a value, null, or a thrown exception *)

Null == [found |-> FALSE, raised |-> FALSE]
Found(v) == [found |-> TRUE, raised |-> FALSE, value |-> v]
Thrown == [found |-> FALSE, raised |-> TRUE]

(* JSON.stringify / JSON.parse: the remote tier holds text, not values *)
Garbage == [garbage |-> TRUE]
JSONstringify(v) == [json |-> v]
JSONparse(d) == IF "json" \in DOMAIN d THEN Found(d.json) ELSE Thrown

(* Finite maps *)
Put(f, k, e) == [x \in (DOMAIN f) \cup {k} |-> IF x = k THEN e ELSE f[x]]
Drop(f, k) == [x \in (DOMAIN f) \ {k} |-> f[x]]
EmptyMap == [x \in {} |-> Null]

(* Outcome of one command sent to the Redis server by a client whose       *)
(* redisAvailable flag is set: it is carried out, or it throws.            *)
CmdOutcomes == {"ok", "fail"}

----------------------------------------------------------------------------
(* In-process tier: cacheService (cache.service.ts) *)

cacheServiceGet(key) ==
  IF key \in DOMAIN localStore /\ now <= localStore[key].exp
    THEN Found(localStore[key].value)
    ELSE Null

cacheServiceSet(store, key, value, ttlMs) ==
  Put(store, key, [value |-> value, exp |-> now + ttlMs])

cacheServiceDelete(store, key) == Drop(store, key)

----------------------------------------------------------------------------
(* Remote tier: the ioredis commands and their wrappers *)

redisGET(rkey, cmd) ==
  IF cmd = "fail" THEN Thrown
  ELSE IF rkey \in DOMAIN redisStore THEN Found(redisStore[rkey].data)
  ELSE Null

\* SETEX rejects a non-positive expire time
redisSETEX(store, rkey, ttlSeconds, data, cmd) ==
  IF cmd = "fail" \/ ttlSeconds <= 0
    THEN [store |-> store, raised |-> TRUE]
    ELSE [store |-> Put(store, rkey, [data |-> data, exp |-> now + ttlSeconds * 1000]),
          raised |-> FALSE]

redisDEL(store, rkey, cmd) ==
  IF cmd = "fail"
    THEN [store |-> store, raised |-> TRUE]
    ELSE [store |-> Drop(store, rkey), raised |-> FALSE]

getFromRedisNoCatch(rkey, cmd) ==
  IF ~redisAvailable \/ ~redisClient THEN Null
  ELSE LET value == redisGET(rkey, cmd) IN
       IF value.raised THEN Thrown
       ELSE IF ~value.found THEN Null
       ELSE JSONparse(value.value)

getFromRedis(rkey, cmd) ==
  IF ~redisAvailable \/ ~redisClient THEN Null
  ELSE LET value == redisGET(rkey, cmd) IN
       IF value.raised THEN Null                      \* catch: warn, return null
       ELSE IF ~value.found THEN Null                 \* if (!value) return null
       ELSE LET parsed == JSONparse(value.value) IN
            IF parsed.raised THEN Null ELSE parsed    \* catch: warn, return null

setInRedis(store, rkey, value, ttlSeconds, cmd) ==
  IF ~redisAvailable \/ ~redisClient THEN [store |-> store, raised |-> FALSE]
  ELSE LET r == redisSETEX(store, rkey, ttlSeconds, JSONstringify(value), cmd) IN
       [store |-> r.store, raised |-> FALSE]          \* catch: warn, swallow

----------------------------------------------------------------------------
(* RedisCacheService (keyPrefix) and GeoCacheService *)

RedisCacheServiceGetNoFallback(keyPrefix, key, cmd) ==
  getFromRedis(keyPrefix \o key, cmd)

RedisCacheServiceGet(keyPrefix, key, cmd) ==
  LET redisValue == getFromRedis(keyPrefix \o key, cmd) IN
  IF redisValue.raised THEN Thrown
  ELSE IF redisValue.found THEN redisValue
  ELSE cacheServiceGet(key)

\* the new contents of both tiers and whether the call threw
RedisCacheServiceSet(keyPrefix, key, value, ttlMs, cmd) ==
  LET r == setInRedis(redisStore, keyPrefix \o key, value, ttlMs \div 1000, cmd) IN
  [redis |-> r.store,
   local |-> cacheServiceSet(localStore, key, value, ttlMs),
   raised |-> r.raised]

RedisCacheServiceDelete(keyPrefix, key, cmd) ==
  LET r == IF redisAvailable /\ redisClient
             THEN redisDEL(redisStore, keyPrefix \o key, cmd)
             ELSE [store |-> redisStore, raised |-> FALSE] IN
  [redis |-> r.store,                                 \* catch: ignore Redis errors
   local |-> cacheServiceDelete(localStore, key),
   raised |-> FALSE]

GeoCacheServiceGet(key, cmd) ==
  LET redisValue == getFromRedis(REDIS_KEY_PREFIX_GEO \o key, cmd) IN
  IF redisValue.raised THEN Thrown
  ELSE IF redisValue.found THEN redisValue
  ELSE cacheServiceGet(key)

GeoCacheServiceSet(key, value, ttlMs, cmd) ==
  LET r == setInRedis(redisStore, REDIS_KEY_PREFIX_GEO \o key, value, ttlMs \div 1000, cmd) IN
  [redis |-> r.store,
   local |-> cacheServiceSet(localStore, key, value, ttlMs),
   raised |-> r.raised]

----------------------------------------------------------------------------
(* Remote health: initRedis and the client's event handlers *)

\* initRedis: connect and ping succeed, or the catch branch drops the client
InitRedis ==
  /\ ~(redisClient /\ redisAvailable)
  /\ conn = "never"
  /\ \E ok \in BOOLEAN :
       IF ok
         THEN /\ redisClient' = TRUE
              /\ redisAvailable' = TRUE
              /\ conn' = "connected"
         ELSE /\ redisClient' = FALSE
              /\ redisAvailable' = FALSE
              /\ conn' = "never"
  /\ downSince' = (downSince /\ ~redisAvailable')
  /\ UNCHANGED <<redisStore, localStore, now, ops, last, lastSet, svcVars, sideVars>>

\* redisClient.on("error")
RedisError ==
  /\ conn \in {"connected", "reconnecting"}
  /\ redisAvailable' = FALSE
  /\ conn' = "disconnected"
  /\ UNCHANGED <<redisClient, redisStore, localStore, now, histVars, svcVars, sideVars>>

\* ioredis retryStrategy: the client starts another connection attempt
RedisReconnecting ==
  /\ conn = "disconnected"
  /\ conn' = "reconnecting"
  /\ UNCHANGED <<redisClient, redisAvailable, redisStore, localStore, now, histVars, svcVars, sideVars>>

\* redisClient.on("connect")
RedisConnect ==
  /\ conn = "reconnecting"
  /\ redisAvailable' = TRUE
  /\ conn' = "connected"
  /\ downSince' = FALSE
  /\ UNCHANGED <<redisClient, redisStore, localStore, now, ops, last, lastSet, svcVars, sideVars>>

(* The clock, in steps of TickMs; a service call takes less than one step. *)
(* The Redis server drops the keys whose time to live is over.  The        *)
(* in-process tier reports an entry as absent once now > exp; such an      *)
(* entry can never be read again, so it is dropped here as well.           *)
Expire(store, t) == [k \in {x \in DOMAIN store : store[x].exp > t} |-> store[k]]

Tick ==
  /\ pc = "idle"
  /\ now < MaxTicks * TickMs
  /\ now' = now + TickMs
  /\ redisStore' = Expire(redisStore, now')
  /\ localStore' = Expire(localStore, now' - 1)
  /\ UNCHANGED <<redisClient, redisAvailable, conn, histVars, svcVars, sideVars>>

----------------------------------------------------------------------------
(* SpecCache: a client of the cache services calling get, set and delete *)

Prefixes == {REDIS_KEY_PREFIX_NODES, REDIS_KEY_PREFIX_STATS,
             REDIS_KEY_PREFIX_ANALYTICS, REDIS_KEY_PREFIX_GEO}
CacheKeys == {CACHE_KEY}
CacheVals == {"v1", "v2"}
CacheTtls == {CACHE_TTL_MS_ANALYTICS}

NoCall == [op |-> "none"]

CacheGet(p, k) ==
  /\ ops < MaxOps
  /\ \E cmd \in CmdOutcomes :
       LET r == IF p = REDIS_KEY_PREFIX_GEO THEN GeoCacheServiceGet(k, cmd)
                ELSE RedisCacheServiceGet(p, k, cmd) IN
       last' = [op |-> "get", svc |-> p, key |-> k, at |-> now, res |-> r,
                up |-> redisClient /\ redisAvailable]
  /\ ops' = ops + 1
  /\ UNCHANGED <<cacheVars, lastSet, downSince, svcVars, sideVars>>

CacheSet(p, k, v, ttl) ==
  /\ ops < MaxOps
  /\ \E cmd \in CmdOutcomes :
       LET r == IF p = REDIS_KEY_PREFIX_GEO THEN GeoCacheServiceSet(k, v, ttl, cmd)
                ELSE RedisCacheServiceSet(p, k, v, ttl, cmd) IN
       /\ redisStore' = r.redis
       /\ localStore' = r.local
       /\ last' = [op |-> "set", svc |-> p, key |-> k,
                   res |-> IF r.raised THEN Thrown ELSE Null]
  /\ lastSet' = [op |-> "set", svc |-> p, key |-> k, at |-> now,
                 value |-> v, ttl |-> ttl]
  /\ downSince' = ~redisAvailable
  /\ ops' = ops + 1
  /\ UNCHANGED <<redisClient, redisAvailable, conn, now, svcVars, sideVars>>

CacheDelete(p, k) ==
  /\ ops < MaxOps
  /\ p # REDIS_KEY_PREFIX_GEO
  /\ \E cmd \in CmdOutcomes :
       LET r == RedisCacheServiceDelete(p, k, cmd) IN
       /\ redisStore' = r.redis
       /\ localStore' = r.local
       /\ last' = [op |-> "delete", svc |-> p, key |-> k,
                   res |-> IF r.raised THEN Thrown ELSE Null]
  /\ lastSet' = NoCall
  /\ ops' = ops + 1
  /\ UNCHANGED <<redisClient, redisAvailable, conn, now, downSince, svcVars, sideVars>>

\* what the remote tier holds when the process starts: nothing, or text an
\* earlier writer left under a key that is not parsable
InitialRemote ==
  {EmptyMap,
   Put(EmptyMap, REDIS_KEY_PREFIX_NODES \o CACHE_KEY,
       [data |-> Garbage, exp |-> CACHE_TTL_MS_ANALYTICS])}

InitCacheVars ==
  /\ redisClient = FALSE
  /\ redisAvailable = FALSE
  /\ conn = "never"
  /\ redisStore \in InitialRemote
  /\ localStore = EmptyMap
  /\ now = 0

InitHistVars ==
  /\ ops = 0
  /\ last = NoCall
  /\ lastSet = NoCall
  /\ downSince = TRUE

NoGhost == [served |-> "none"]
NoFrame == [pods |-> Null, nodes |-> Null, metrics |-> Null, shared |-> FALSE]
NoResult == [op |-> "none"]

InitSvcVars ==
  /\ pc = "idle"
  /\ stack = <<>>
  /\ op = "none"
  /\ frame = NoFrame
  /\ disc = <<>>
  /\ seed = 0
  /\ rv = Null
  /\ calls = 0
  /\ ghost = NoGhost
  /\ result = NoResult

NoJobHist == [invocations |-> 0, starts |-> 0, src |-> "none", busy |-> FALSE,
              entered |-> FALSE, stopped |-> FALSE, afterStop |-> FALSE]
NoCalc == [fn |-> "none"]

InitJobVars ==
  /\ isRunning = FALSE
  /\ enrichmentInterval = 0
  /\ timers = {}
  /\ runs = <<>>
  /\ jobHist = NoJobHist

NoTask == [pc |-> "idle", disc |-> <<>>, seed |-> 0, wrote |-> Null]

InitOvVars ==
  /\ tasks = [t \in 1..2 |-> NoTask]
  /\ later = {}

InitSideVars ==
  /\ InitJobVars
  /\ calc = NoCalc
  /\ InitOvVars

InitCache ==
  /\ InitCacheVars
  /\ InitHistVars
  /\ InitSvcVars
  /\ InitSideVars

NextCache ==
  \/ \E p \in Prefixes, k \in CacheKeys : CacheGet(p, k)
  \/ \E p \in Prefixes, k \in CacheKeys, v \in CacheVals, ttl \in CacheTtls :
       CacheSet(p, k, v, ttl)
  \/ \E p \in Prefixes, k \in CacheKeys : CacheDelete(p, k)
  \/ InitRedis
  \/ RedisError
  \/ RedisReconnecting
  \/ RedisConnect
  \/ Tick

SpecCache == InitCache /\ [][NextCache]_vars

----------------------------------------------------------------------------
(* Claims about the tiered cache, checked under SpecCache *)

SameKey(a, b) == a.svc = b.svc /\ a.key = b.key

\* C6: with the remote tier unavailable from the set on, a get of the key
\* that follows a set(key, v, ttl) before the TTL elapses returns v (served
\* by the in-process tier).
C6_SetThenGetRemoteDown ==
  (/\ last.op = "get"
   /\ lastSet.op = "set"
   /\ SameKey(last, lastSet)
   /\ downSince
   /\ last.at < lastSet.at + lastSet.ttl)
  => last.res = Found(lastSet.value)

\* a get made one tick after the set, still inside the TTL, remote tier down
C6_Witness ==
  /\ last.op = "get"
  /\ lastSet.op = "set"
  /\ SameKey(last, lastSet)
  /\ downSince
  /\ lastSet.at < last.at
  /\ last.at < lastSet.at + lastSet.ttl
  /\ last.res = Found(lastSet.value)

\* C7: after set(key, v, ttl) returned, a get of the key before the TTL
\* elapses, with no set or delete of the key in between, returns v whatever
\* the health of the remote tier was at the set and has been since.
C7_GetAfterSetReturnsValue ==
  (/\ last.op = "get"
   /\ lastSet.op = "set"
   /\ SameKey(last, lastSet)
   /\ last.at < lastSet.at + lastSet.ttl)
  => last.res = Found(lastSet.value)

\* C8: get, set and delete never raise, in every state of the remote tier
\* and whatever the remote command does; get reports absence as null.
C8_CacheCallsNeverRaise ==
  last.op # "none" => ~last.res.raised

\* a get that met unparsable text under its key in the connected remote tier
C8_Witness ==
  /\ last.op = "get"
  /\ last.up
  /\ (last.svc \o last.key) \in DOMAIN redisStore
  /\ redisStore[last.svc \o last.key].data = Garbage
  /\ last.res = Null

\* what get(k) on the logical cache p returns when the remote command works
View(p, k) ==
  IF p = REDIS_KEY_PREFIX_GEO THEN GeoCacheServiceGet(k, "ok")
  ELSE RedisCacheServiceGet(p, k, "ok")

\* C10: a set or delete of key k on one logical cache never changes what
\* get(k) returns on another logical cache.
C10_NoCollision ==
  [][\A p \in Prefixes, k \in CacheKeys :
       ((\E v \in CacheVals, ttl \in CacheTtls : CacheSet(p, k, v, ttl))
          \/ CacheDelete(p, k))
       => \A q \in Prefixes \ {p} : View(q, k)' = View(q, k)]_vars

----------------------------------------------------------------------------
(* Gossip network: SEED_IPS, the raw records (Pod) and the responses *)

SEED_IPS == <<"173.212.220.65", "161.97.97.41", "192.190.136.36", "192.190.136.38",
              "207.244.255.1", "192.190.136.28", "192.190.136.29", "173.212.203.145">>

ONLINE_THRESHOLD_SECONDS == 300
thirtyDaysInSeconds == 2592000

\* Raw records.  Times are seconds relative to the start of the process; a
\* missing number is 0 (the code tests these fields for truthiness), a
\* missing last_seen_timestamp is has_last_seen = FALSE.  Uptimes are
\* multiples of 25920 s so that the percentages below are whole numbers.
Pod(pubkey, ip, lastSeen, uptime, used, committed) ==
  [pubkey |-> pubkey, address |-> [ip |-> ip, port |-> 9001],
   has_last_seen |-> TRUE, last_seen_timestamp |-> lastSeen,
   uptime |-> uptime, storage_used |-> used, storage_committed |-> committed,
   storage_usage_percent |-> 0]

PodX1 == Pod("x", "10.0.0.1", 0, 25920, 50, 100)
PodX2 == Pod("x", "8.8.8.8", -600, 2592000, 90, 100)
PodNoKey == Pod("", "8.8.4.4", 0, 0, 0, 0)
PodY == Pod("y", "8.8.4.4", 0, 0, 0, 0)
PodBad == [Pod("z", "8.8.4.4", 0, 0, 0, 0) EXCEPT !.has_last_seen = FALSE]

PodUniverse == {PodX1, PodX2, PodY, PodNoKey, PodBad}

SeqsUpTo(S, n) == UNION {[1..k -> S] : k \in 0..n}
Responses == SeqsUpTo(PodUniverse, MaxPods)

----------------------------------------------------------------------------
(* Node Normalizer: normalizePNode (format.ts) *)

Min(a, b) == IF a < b THEN a ELSE b
Max(a, b) == IF a > b THEN a ELSE b
\* Math.round of the quotient a / b of a non-negative a by a positive b
RoundDiv(a, b) == (2 * a + b) \div (2 * b)

normalizePNodeNoUptimeClamp(pod, nowMs) ==
  LET thresholdTime == (nowMs \div 1000) - ONLINE_THRESHOLD_SECONDS
      isOnline == pod.has_last_seen /\ pod.last_seen_timestamp >= thresholdTime
      uptime30dNormalized ==
        IF pod.uptime > 100 THEN (pod.uptime * 100) \div thirtyDaysInSeconds
        ELSE pod.uptime
  IN IF ~pod.has_last_seen
       THEN Thrown
       ELSE Found([pubkey |-> pod.pubkey,
                   status |-> IF isOnline THEN "online" ELSE "offline",
                   storageUsed |-> pod.storage_used,
                   storageTotal |-> pod.storage_committed,
                   uptime |-> uptime30dNormalized,
                   address |-> pod.address,
                   storageCommitted |-> pod.storage_committed,
                   lastSeenTimestamp |-> pod.last_seen_timestamp])

normalizePNodeStrict(pod, nowMs) ==
  LET thresholdTime == (nowMs \div 1000) - ONLINE_THRESHOLD_SECONDS
      isOnline == pod.has_last_seen /\ pod.last_seen_timestamp > thresholdTime
  IN IF ~pod.has_last_seen
       THEN Thrown
       ELSE Found([pubkey |-> pod.pubkey,
                   status |-> IF isOnline THEN "online" ELSE "offline",
                   storageUsed |-> pod.storage_used,
                   storageTotal |-> pod.storage_committed,
                   uptime |-> pod.uptime,
                   address |-> pod.address,
                   storageCommitted |-> pod.storage_committed,
                   lastSeenTimestamp |-> pod.last_seen_timestamp])

normalizePNode(pod, nowMs) ==
  LET thresholdTime == (nowMs \div 1000) - ONLINE_THRESHOLD_SECONDS
      isOnline == pod.has_last_seen /\ pod.last_seen_timestamp >= thresholdTime
      storageTotal ==
        IF pod.storage_committed # 0 THEN pod.storage_committed
        ELSE IF pod.storage_used # 0 /\ pod.storage_usage_percent # 0
                /\ pod.storage_usage_percent > 0 /\ pod.storage_usage_percent <= 100
          THEN RoundDiv(pod.storage_used * 100, pod.storage_usage_percent)
          ELSE 0
      rawUptime == pod.uptime
      uptime30dNormalized ==
        IF rawUptime > 100 THEN Min(100, (rawUptime * 100) \div thirtyDaysInSeconds)
        ELSE IF rawUptime < 0 THEN 0
        ELSE rawUptime
  IN IF ~pod.has_last_seen
       THEN Thrown              \* new Date(NaN).toISOString() throws RangeError
       ELSE Found([pubkey |-> pod.pubkey,
                   status |-> IF isOnline THEN "online" ELSE "offline",
                   storageUsed |-> pod.storage_used,
                   storageTotal |-> storageTotal,
                   uptime |-> uptime30dNormalized,
                   address |-> pod.address,
                   storageCommitted |-> pod.storage_committed,
                   lastSeenTimestamp |-> pod.last_seen_timestamp])

----------------------------------------------------------------------------
(* Discovery Service: pnode.service.ts *)

CACHE_KEY_MAP == "pnodes_map_all"
CACHE_TTL_MS_MAP == 30000

\* for (const pod of response.pods) { try { normalize; push if pubkey } catch {} }
RECURSIVE pushNormalized(_, _, _)
pushNormalized(discoveredNodes, pods, nowMs) ==
  IF pods = <<>> THEN discoveredNodes
  ELSE LET normalized == normalizePNode(Head(pods), nowMs) IN
       pushNormalized(
         IF ~normalized.raised /\ normalized.value.pubkey # ""
           THEN Append(discoveredNodes, normalized.value)
           ELSE discoveredNodes,
         Tail(pods), nowMs)

\* the three kinds of step of discoverPNodesViaGossip; each gives the new
\* discoveredNodes, where the function goes next, and whether it throws
discoverStatsStep(r, nowMs) ==
  IF ~r.ok THEN [disc |-> <<>>, next |-> "pods", raised |-> FALSE]  \* inner catch
  ELSE LET d == pushNormalized(<<>>, r.pods, nowMs) IN
       [disc |-> d, next |-> IF Len(d) > 0 THEN "return" ELSE "seeds", raised |-> FALSE]

discoverPodsStepNoCatch(r, nowMs) ==
  IF ~r.ok THEN [disc |-> <<>>, next |-> "return", raised |-> TRUE]
  ELSE LET d == pushNormalized(<<>>, r.pods, nowMs) IN
       [disc |-> d, next |-> IF Len(d) > 0 THEN "return" ELSE "seeds", raised |-> FALSE]

discoverPodsStep(r, nowMs) ==
  IF ~r.ok THEN [disc |-> <<>>, next |-> "seeds", raised |-> FALSE] \* outer catch
  ELSE LET d == pushNormalized(<<>>, r.pods, nowMs) IN
       [disc |-> d, next |-> IF Len(d) > 0 THEN "return" ELSE "seeds", raised |-> FALSE]

discoverSeedStepNoStop(i, r, nowMs) ==
  LET d == IF r.ok THEN pushNormalized(<<>>, r.pods, nowMs) ELSE <<>> IN
  [disc |-> d,
   next |-> IF i + 1 >= Len(SEED_IPS) THEN "return" ELSE "seeds",
   raised |-> FALSE]

\* one iteration of the seed loop, entered with index i (0-based) and an
\* empty discoveredNodes; the loop goes on while i < SEED_IPS.length and
\* nothing was discovered
discoverSeedStep(i, r, nowMs) ==
  LET d == IF r.ok THEN pushNormalized(<<>>, r.pods, nowMs) ELSE <<>> IN
  [disc |-> d,
   next |-> IF Len(d) > 0 \/ i + 1 >= Len(SEED_IPS) THEN "return" ELSE "seeds",
   raised |-> FALSE]                                                \* catch: next seed

\* Deduplicate by pubkey (keep first occurrence)
RECURSIVE uniqueFrom(_, _, _)
uniqueFrom(nodes, seen, uniqueNodes) ==
  IF nodes = <<>> THEN uniqueNodes
  ELSE LET node == Head(nodes) IN
       IF node.pubkey = "" \/ node.pubkey \in seen
         THEN uniqueFrom(Tail(nodes), seen, uniqueNodes)
         ELSE uniqueFrom(Tail(nodes), seen \cup {node.pubkey}, Append(uniqueNodes, node))

dedupeNone(nodes) == nodes

RECURSIVE dedupeKeepLast(_)
dedupeKeepLast(nodes) ==
  IF nodes = <<>> THEN <<>>
  ELSE IF Head(nodes).pubkey = ""
            \/ \E j \in 2..Len(nodes) : nodes[j].pubkey = Head(nodes).pubkey
         THEN dedupeKeepLast(Tail(nodes))
         ELSE <<Head(nodes)>> \o dedupeKeepLast(Tail(nodes))

dedupe(nodes) == uniqueFrom(nodes, {}, <<>>)

\* enrichNodeWithStats / enrichNodesWithCachedStats (stats-enrichment service):
\* a node whose stats are cached gets ramUsed and ramTotal.  The entries
\* node_stats_<pubkey> are written by getNodeStatsByPubkey.
enrichNodeWithStats(node, cmd) ==
  LET cachedStats == RedisCacheServiceGet(statsCacheService, "node_stats_" \o node.pubkey, cmd) IN
  IF cachedStats.found
    THEN [k \in (DOMAIN node) \cup {"ramUsed", "ramTotal"} |->
            IF k = "ramUsed" THEN cachedStats.value.ram_used
            ELSE IF k = "ramTotal" THEN cachedStats.value.ram_total
            ELSE node[k]]
    ELSE node

enrichNodesWithCachedStats(nodes, cmd) ==
  [i \in 1..Len(nodes) |-> enrichNodeWithStats(nodes[i], cmd)]

----------------------------------------------------------------------------
(* The service call in flight *)

\* return to the caller: the callee's value goes to rv
Return(value) ==
  /\ rv' = value
  /\ pc' = Head(stack)
  /\ stack' = Tail(stack)

NoLiveEntry ==
  /\ \A k \in DOMAIN redisStore : redisStore[k].data = Garbage
  /\ \A k \in DOMAIN localStore : localStore[k].exp < now

DiscoveryOps == {"getAllPNodes", "refreshPNodes"}
MapOps == {"getAllPNodes", "getAllPNodesForMap"}

AnalyticsOps == {"getAnalyticsSummary", "getNodeMetrics", "getExtendedSummary",
                 "getTopNodes", "getStoragePressure", "getMapNodes"}

\* the first await of each exported function, and where the function goes on
\* when the awaited callees return
Entry(o) ==
  CASE o = "getAllPNodes" -> "gap_get"
    [] o = "refreshPNodes" -> "refresh_delete"
    [] o = "getAllPNodesForMap" -> "map_get"
    [] o = "getAnalyticsSummary" -> "gap_get"
    [] o = "getMapNodes" -> "gap_get"
    [] OTHER -> "gcm_get"

Continuations(o) ==
  CASE o = "getAnalyticsSummary" -> <<"sum_nodes", "ret_top">>
    [] o = "getExtendedSummary" -> <<"ext_metrics", "ret_top">>
    [] o = "getTopNodes" -> <<"top_metrics", "ret_top">>
    [] o = "getStoragePressure" -> <<"sp_metrics", "ret_top">>
    [] o = "getMapNodes" -> <<"mn_nodes", "ret_top">>
    [] OTHER -> <<"ret_top">>

\* The record lists the gossip operations of one call may answer with.
\* The peers asked by a discovery round answer independently of each other;
\* during a call of the analytics or map service, which asks the primary
\* endpoint more than once, the gossiped records do not change.
NetworksOf(o) ==
  IF o \in AnalyticsOps THEN {[any |-> FALSE, pods |-> r] : r \in Responses}
  ELSE {[any |-> TRUE]}

\* a gossip operation throws (timeout, refused, ...) or answers {pods}
GossipAnswers ==
  {[ok |-> FALSE]} \cup
  {[ok |-> TRUE, pods |-> r] : r \in IF ghost.net.any THEN Responses ELSE {ghost.net.pods}}

StartUpTo(o, n) ==
  /\ pc = "idle"
  /\ calls < n
  /\ calls' = calls + 1
  /\ op' = o
  /\ pc' = Entry(o)
  /\ stack' = Continuations(o)
  /\ \E net \in NetworksOf(o) :
       ghost' = [served |-> "none", anyOk |-> FALSE, exhausted |-> FALSE,
                 cold |-> NoLiveEntry, net |-> net]
  /\ result' = NoResult
  /\ UNCHANGED <<cacheVars, histVars, sideVars, frame, disc, seed, rv>>

Start(o) == StartUpTo(o, MaxCalls)

\* the exported function returns to the transport layer
RetTop ==
  /\ pc = "ret_top"
  /\ result' = [op |-> op, raised |-> rv.raised,
                value |-> IF rv.raised THEN <<>> ELSE rv.value,
                served |-> ghost.served, discovered |-> disc,
                anyOk |-> ghost.anyOk, exhausted |-> ghost.exhausted,
                cold |-> ghost.cold]
  /\ pc' = "idle"
  /\ op' = "none"
  /\ rv' = Null
  /\ disc' = <<>>
  /\ seed' = 0
  /\ ghost' = NoGhost
  /\ frame' = NoFrame
  /\ UNCHANGED <<cacheVars, histVars, sideVars, stack, calls>>

\* history: some gossip operation of the call answered; the seed loop of the
\* call has tried the last seed
Gossiped(r, i) ==
  [ghost EXCEPT !.anyOk = @ \/ r.ok,
                !.exhausted = @ \/ (i + 1 >= Len(SEED_IPS))]

\* refreshPNodes: await nodeCacheService.delete(CACHE_KEY); return getAllPNodes()
RefreshDelete ==
  /\ pc = "refresh_delete"
  /\ \E cmd \in CmdOutcomes :
       LET r == RedisCacheServiceDelete(nodeCacheService, CACHE_KEY, cmd) IN
       /\ redisStore' = r.redis
       /\ localStore' = r.local
       /\ IF r.raised THEN Return(Thrown)
          ELSE pc' = "gap_get" /\ UNCHANGED <<rv, stack>>
  /\ UNCHANGED <<redisClient, redisAvailable, conn, now, histVars, sideVars,
                 op, frame, disc, seed, calls, ghost, result>>

\* getAllPNodes: the cache lookup; a hit is enriched and returned
GapGet ==
  /\ pc = "gap_get"
  /\ \E cmd \in CmdOutcomes :
       LET cached == RedisCacheServiceGet(nodeCacheService, CACHE_KEY, cmd) IN
       IF cached.raised THEN Return(Thrown) /\ UNCHANGED ghost
       ELSE IF cached.found
         THEN /\ Return(Found(enrichNodesWithCachedStats(cached.value, cmd)))
              /\ ghost' = [ghost EXCEPT !.served = "cache"]
         ELSE /\ pc' = "disc_stats"
              /\ UNCHANGED <<rv, stack, ghost>>
  /\ UNCHANGED <<cacheVars, histVars, sideVars, op, frame, disc, seed, calls, result>>

\* discoverPNodesViaGossip: prpcClient.getPodsWithStats()
DiscStats ==
  /\ pc = "disc_stats"
  /\ \E r \in GossipAnswers :
       LET s == discoverStatsStep(r, now) IN
       /\ disc' = s.disc
       /\ seed' = 1
       /\ ghost' = Gossiped(r, 0)
       /\ IF s.raised THEN Return(Thrown)
          ELSE /\ pc' = CASE s.next = "pods" -> "disc_pods"
                          [] s.next = "seeds" -> "disc_seed"
                          [] s.next = "return" -> "gap_set"
               /\ UNCHANGED <<rv, stack>>
  /\ UNCHANGED <<cacheVars, histVars, sideVars, op, frame, calls, result>>

\* discoverPNodesViaGossip: prpcClient.getPods() after getPodsWithStats threw
DiscPods ==
  /\ pc = "disc_pods"
  /\ \E r \in GossipAnswers :
       LET s == discoverPodsStep(r, now) IN
       /\ disc' = s.disc
       /\ ghost' = Gossiped(r, 0)
       /\ IF s.raised THEN Return(Thrown)
          ELSE /\ pc' = IF s.next = "seeds" THEN "disc_seed" ELSE "gap_set"
               /\ UNCHANGED <<rv, stack>>
  /\ UNCHANGED <<cacheVars, histVars, sideVars, op, frame, seed, calls, result>>

\* discoverPNodesViaGossip: new PrpcClient(SEED_IPS[i]).getPods()
DiscSeed ==
  /\ pc = "disc_seed"
  /\ \E r \in GossipAnswers :
       LET s == discoverSeedStep(seed, r, now) IN
       /\ disc' = s.disc
       /\ seed' = seed + 1
       /\ ghost' = Gossiped(r, seed)
       /\ IF s.raised THEN Return(Thrown)
          ELSE /\ pc' = IF s.next = "seeds" THEN "disc_seed" ELSE "gap_set"
               /\ UNCHANGED <<rv, stack>>
  /\ UNCHANGED <<cacheVars, histVars, sideVars, op, frame, calls, result>>

\* getAllPNodes after discovery: deduplicate, cache, enrich, return
GapSet ==
  /\ pc = "gap_set"
  /\ \E cmd \in CmdOutcomes :
       LET uniqueNodes == dedupe(disc)
           r == RedisCacheServiceSet(nodeCacheService, CACHE_KEY, uniqueNodes,
                                     CACHE_TTL_MS, cmd) IN
       /\ redisStore' = r.redis
       /\ localStore' = r.local
       /\ IF r.raised THEN Return(Thrown)
          ELSE Return(Found(enrichNodesWithCachedStats(uniqueNodes, cmd)))
  /\ ghost' = [ghost EXCEPT !.served = "discovery"]
  /\ UNCHANGED <<redisClient, redisAvailable, conn, now, histVars, sideVars,
                 op, frame, disc, seed, calls, result>>

----------------------------------------------------------------------------
(* getAllPNodesForMap: the undeduplicated accessor *)

mapStatsStep(r, nowMs) ==
  IF ~r.ok THEN [disc |-> <<>>, next |-> "pods", raised |-> FALSE]  \* inner catch
  ELSE [disc |-> pushNormalized(<<>>, r.pods, nowMs), next |-> "return", raised |-> FALSE]

\* the seed loop sits in the catch block of the primary attempt
mapPodsStep(r, nowMs) ==
  IF ~r.ok THEN [disc |-> <<>>, next |-> "seeds", raised |-> FALSE] \* outer catch
  ELSE [disc |-> pushNormalized(<<>>, r.pods, nowMs), next |-> "return", raised |-> FALSE]

mapSeedStep(i, r, nowMs) ==
  LET d == IF r.ok THEN pushNormalized(<<>>, r.pods, nowMs) ELSE <<>> IN
  [disc |-> d,
   next |-> IF Len(d) > 0 \/ i + 1 >= Len(SEED_IPS) THEN "return" ELSE "seeds",
   raised |-> FALSE]                                                \* catch: next seed

MapGet ==
  /\ pc = "map_get"
  /\ \E cmd \in CmdOutcomes :
       LET cached == RedisCacheServiceGet(nodeCacheService, CACHE_KEY_MAP, cmd) IN
       IF cached.raised THEN Return(Thrown) /\ UNCHANGED ghost
       ELSE IF cached.found
         THEN /\ Return(Found(enrichNodesWithCachedStats(cached.value, cmd)))
              /\ ghost' = [ghost EXCEPT !.served = "cache"]
         ELSE /\ pc' = "map_stats"
              /\ UNCHANGED <<rv, stack, ghost>>
  /\ UNCHANGED <<cacheVars, histVars, sideVars, op, frame, disc, seed, calls, result>>

MapStats ==
  /\ pc = "map_stats"
  /\ \E r \in GossipAnswers :
       LET s == mapStatsStep(r, now) IN
       /\ disc' = s.disc
       /\ seed' = 1
       /\ ghost' = Gossiped(r, 0)
       /\ IF s.raised THEN Return(Thrown)
          ELSE /\ pc' = IF s.next = "pods" THEN "map_pods" ELSE "map_set"
               /\ UNCHANGED <<rv, stack>>
  /\ UNCHANGED <<cacheVars, histVars, sideVars, op, frame, calls, result>>

MapPods ==
  /\ pc = "map_pods"
  /\ \E r \in GossipAnswers :
       LET s == mapPodsStep(r, now) IN
       /\ disc' = s.disc
       /\ ghost' = Gossiped(r, 0)
       /\ IF s.raised THEN Return(Thrown)
          ELSE /\ pc' = IF s.next = "seeds" THEN "map_seed" ELSE "map_set"
               /\ UNCHANGED <<rv, stack>>
  /\ UNCHANGED <<cacheVars, histVars, sideVars, op, frame, seed, calls, result>>

MapSeed ==
  /\ pc = "map_seed"
  /\ \E r \in GossipAnswers :
       LET s == mapSeedStep(seed, r, now) IN
       /\ disc' = s.disc
       /\ seed' = seed + 1
       /\ ghost' = Gossiped(r, seed)
       /\ IF s.raised THEN Return(Thrown)
          ELSE /\ pc' = IF s.next = "seeds" THEN "map_seed" ELSE "map_set"
               /\ UNCHANGED <<rv, stack>>
  /\ UNCHANGED <<cacheVars, histVars, sideVars, op, frame, calls, result>>

MapSet ==
  /\ pc = "map_set"
  /\ \E cmd \in CmdOutcomes :
       LET r == RedisCacheServiceSet(nodeCacheService, CACHE_KEY_MAP, disc,
                                     CACHE_TTL_MS_MAP, cmd) IN
       /\ redisStore' = r.redis
       /\ localStore' = r.local
       /\ IF r.raised THEN Return(Thrown)
          ELSE Return(Found(enrichNodesWithCachedStats(disc, cmd)))
  /\ ghost' = [ghost EXCEPT !.served = "discovery"]
  /\ UNCHANGED <<redisClient, redisAvailable, conn, now, histVars, sideVars,
                 op, frame, disc, seed, calls, result>>

----------------------------------------------------------------------------
(* Analytics Engine: the helpers of format.ts and the computations of the  *)
(* analytics service.  Percentages and scores are kept in hundredths (9000 *)
(* is 90.00); the raw records of PodUniverse give whole hundredths.        *)

secondsIn24h == 86400

NODE_METRICS_CACHE_KEY == "computed_node_metrics"
NODE_METRICS_CACHE_TTL_MS == 60000

RECURSIVE SumSeq(_)
SumSeq(xs) == IF xs = <<>> THEN 0 ELSE Head(xs) + SumSeq(Tail(xs))

\* Math.round((a / b) * 100 * 100) / 100
Round2Pct(a, b) == RoundDiv(a * 10000, b)

\* Math.min(100, Math.max(0, percentage)); a day or more is 100 (decided
\* before multiplying, to stay inside TLC's 32-bit integers)
calculateUptime24h(uptimeSeconds) ==
  IF uptimeSeconds < 0 THEN 0
  ELSE IF uptimeSeconds >= secondsIn24h THEN 10000
  ELSE LET percentage == (uptimeSeconds * 10000) \div secondsIn24h IN
       Min(10000, Max(0, percentage))

\* the three weighted terms are summed in thousandths
calculateHealthScoreNoClamp(uptime24h, storageUtilization, isOnline) ==
  LET uptimeScore == uptime24h * 5
      storageScore == (10000 - storageUtilization) * 3
      onlineScoreWeighted == (IF isOnline THEN 10000 ELSE 0) * 2
  IN RoundDiv(uptimeScore + storageScore + onlineScoreWeighted, 10)

calculateHealthScore(uptime24h, storageUtilization, isOnline) ==
  LET uptimeScore == uptime24h * 5
      clampedUtilization == Min(10000, Max(0, storageUtilization))
      storageScore == (10000 - clampedUtilization) * 3
      onlineScore == IF isOnline THEN 10000 ELSE 0
      onlineScoreWeighted == onlineScore * 2
      totalScore == uptimeScore + storageScore + onlineScoreWeighted
  IN RoundDiv(Min(100000, Max(0, totalScore)), 10)

getNodeTierStrict(healthScore) ==
  IF healthScore > 9000 THEN "Excellent"
  ELSE IF healthScore > 7500 THEN "Good"
  ELSE "Poor"

getNodeTier(healthScore) ==
  IF healthScore >= 9000 THEN "Excellent"
  ELSE IF healthScore >= 7500 THEN "Good"
  ELSE "Poor"

calculateNetworkHealthStrict(onlinePercentage) ==
  IF onlinePercentage > 9500 THEN "healthy"
  ELSE IF onlinePercentage > 8500 THEN "degraded"
  ELSE "unstable"

calculateNetworkHealth(onlinePercentage) ==
  IF onlinePercentage >= 9500 THEN "healthy"
  ELSE IF onlinePercentage >= 8500 THEN "degraded"
  ELSE "unstable"

\* for (const pod of pods) { node = nodes.find(...); if (!node || !pod.pubkey) continue; ... }
RECURSIVE computeNodeMetricsFromData(_, _)
computeNodeMetricsFromData(pods, nodes) ==
  IF pods = <<>> THEN <<>>
  ELSE LET pod == Head(pods)
           found == {i \in 1..Len(nodes) : nodes[i].pubkey = pod.pubkey}
           rest == computeNodeMetricsFromData(Tail(pods), nodes) IN
       IF found = {} \/ pod.pubkey = "" THEN rest
       ELSE LET node == nodes[CHOOSE i \in found : \A j \in found : i <= j]
                uptime24h == calculateUptime24h(pod.uptime)
                storageCommitted == pod.storage_committed
                storageUsed == pod.storage_used
                storageUtilization ==
                  IF storageCommitted > 0 THEN Round2Pct(storageUsed, storageCommitted)
                  ELSE 0
                healthScore == calculateHealthScore(uptime24h, storageUtilization,
                                                    node.status = "online") IN
            <<[pubkey |-> pod.pubkey,
               healthScore |-> healthScore,
               uptime24h |-> uptime24h,
               storageUtilization |-> storageUtilization,
               tier |-> getNodeTier(healthScore)]>> \o rest

\* the body of getAnalyticsSummary after its two awaits (the TB fields are
\* the byte totals divided by 1024^4)
AnalyticsSummaryOf(nodes, rawPods, nowMs) ==
  LET thresholdTime == (nowMs \div 1000) - ONLINE_THRESHOLD_SECONDS
      activePods == Cardinality({i \in 1..Len(rawPods) :
                       /\ rawPods[i].has_last_seen
                       /\ rawPods[i].last_seen_timestamp >= thresholdTime})
      totalPods == Len(rawPods)
      totalPNodes == Len(nodes)
      online == {i \in 1..Len(nodes) : nodes[i].status = "online"}
      onlinePNodes == Cardinality(online)
      onlinePercentage ==
        IF totalPNodes > 0 THEN Round2Pct(onlinePNodes, totalPNodes) ELSE 0
      uptimes == SelectSeq([i \in 1..Len(nodes) |->
                              IF i \in online THEN nodes[i].uptime ELSE 0],
                           LAMBDA u : u > 0)
      averageUptime ==
        IF Len(uptimes) > 0 THEN RoundDiv(SumSeq(uptimes) * 100, Len(uptimes)) ELSE 0
      totalStorageUsed == SumSeq([i \in 1..Len(nodes) |-> nodes[i].storageUsed])
      totalStorageCapacity ==
        SumSeq([i \in 1..Len(rawPods) |->
                  IF rawPods[i].storage_committed > 0
                    THEN rawPods[i].storage_committed ELSE 0])
  IN [totalPNodes |-> totalPNodes,
      onlinePNodes |-> onlinePNodes,
      onlinePercentage |-> onlinePercentage,
      totalPods |-> totalPods,
      activePods |-> activePods,
      averageUptime |-> averageUptime,
      totalStorageUsed |-> totalStorageUsed,
      totalStorageCapacity |-> totalStorageCapacity,
      networkHealth |-> calculateNetworkHealth(onlinePercentage)]

HighPressure(metrics) ==
  Cardinality({i \in 1..Len(metrics) : metrics[i].storageUtilization > 8000})

\* the body of getExtendedSummary after its two awaits
ExtendedSummaryOf(metrics, nodes) ==
  LET totalPNodes == Len(metrics) IN
  IF totalPNodes = 0
    THEN [totalPNodes |-> 0, onlinePercentage |-> 0, averageUptime24h |-> 0,
          averageHealthScore |-> 0, storagePressurePercent |-> 0,
          networkHealth |-> "unstable"]
    ELSE LET onlineNodes == Cardinality({i \in 1..Len(nodes) : nodes[i].status = "online"})
             onlinePercentage == Round2Pct(onlineNodes, totalPNodes) IN
         [totalPNodes |-> totalPNodes,
          onlinePercentage |-> onlinePercentage,
          averageUptime24h |->
            RoundDiv(SumSeq([i \in 1..Len(metrics) |-> metrics[i].uptime24h]), totalPNodes),
          averageHealthScore |->
            RoundDiv(SumSeq([i \in 1..Len(metrics) |-> metrics[i].healthScore]), totalPNodes),
          storagePressurePercent |-> Round2Pct(HighPressure(metrics), totalPNodes),
          networkHealth |-> calculateNetworkHealth(onlinePercentage)]

\* the body of getStoragePressure after its await
StoragePressureOf(metrics) ==
  LET totalNodes == Len(metrics) IN
  [highPressureNodes |-> HighPressure(metrics),
   totalNodes |-> totalNodes,
   percent |-> IF totalNodes > 0 THEN Round2Pct(HighPressure(metrics), totalNodes) ELSE 0]

\* metrics.sort((a, b) => b.healthScore - a.healthScore): stable, descending
RECURSIVE sortByHealthScore(_)
sortByHealthScore(metrics) ==
  IF metrics = <<>> THEN <<>>
  ELSE LET m == Head(metrics)
           sorted == sortByHealthScore(Tail(metrics))
           before == SelectSeq(sorted, LAMBDA e : e.healthScore > m.healthScore)
           after == SelectSeq(sorted, LAMBDA e : e.healthScore <= m.healthScore) IN
       before \o <<m>> \o after

\* .slice(0, 10).map(...)
TopNodesOf(sorted) ==
  LET top == SubSeq(sorted, 1, Min(10, Len(sorted))) IN
  [i \in 1..Len(top) |-> [pubkey |-> top[i].pubkey,
                          healthScore |-> top[i].healthScore,
                          uptime24h |-> top[i].uptime24h]]

----------------------------------------------------------------------------
(* getRawPodsForAnalytics (pnode.service.ts) *)

\* call a function: the caller goes on at label cont when the callee returns
Call(entry, cont) ==
  /\ pc' = entry
  /\ stack' = <<cont>> \o stack

RawGet ==
  /\ pc = "raw_get"
  /\ \E cmd \in CmdOutcomes :
       LET cached == RedisCacheServiceGet(analyticsCacheService, CACHE_KEY_ANALYTICS, cmd) IN
       IF cached.raised THEN Return(Thrown)
       ELSE IF cached.found THEN Return(Found(cached.value))
       ELSE pc' = "raw_stats" /\ UNCHANGED <<rv, stack>>
  /\ UNCHANGED <<cacheVars, histVars, sideVars, op, frame, disc, seed, calls, ghost, result>>

\* try { getPodsWithStats(); set; return pods } -- any throw goes to the catch
RawStats ==
  /\ pc = "raw_stats"
  /\ \E r \in GossipAnswers, cmd \in CmdOutcomes :
       /\ ghost' = [ghost EXCEPT !.anyOk = @ \/ r.ok]
       /\ IF r.ok
            THEN LET w == RedisCacheServiceSet(analyticsCacheService, CACHE_KEY_ANALYTICS,
                                               r.pods, CACHE_TTL_MS_ANALYTICS, cmd) IN
                 /\ redisStore' = w.redis
                 /\ localStore' = w.local
                 /\ IF w.raised THEN pc' = "raw_pods" /\ UNCHANGED <<rv, stack>>
                    ELSE Return(Found(r.pods))
            ELSE /\ pc' = "raw_pods"
                 /\ UNCHANGED <<redisStore, localStore, rv, stack>>
  /\ UNCHANGED <<redisClient, redisAvailable, conn, now, histVars, sideVars,
                 op, frame, disc, seed, calls, result>>

\* catch { getPods(); set; return pods } -- nothing catches a throw here
RawPods ==
  /\ pc = "raw_pods"
  /\ \E r \in GossipAnswers, cmd \in CmdOutcomes :
       /\ ghost' = [ghost EXCEPT !.anyOk = @ \/ r.ok]
       /\ IF r.ok
            THEN LET w == RedisCacheServiceSet(analyticsCacheService, CACHE_KEY_ANALYTICS,
                                               r.pods, CACHE_TTL_MS_ANALYTICS, cmd) IN
                 /\ redisStore' = w.redis
                 /\ localStore' = w.local
                 /\ IF w.raised THEN Return(Thrown) ELSE Return(Found(r.pods))
            ELSE /\ Return(Thrown)
                 /\ UNCHANGED <<redisStore, localStore>>
  /\ UNCHANGED <<redisClient, redisAvailable, conn, now, histVars, sideVars,
                 op, frame, disc, seed, calls, result>>

GetRawPodsForAnalyticsSteps ==
  \/ RawGet
  \/ RawStats
  \/ RawPods

----------------------------------------------------------------------------
(* getCachedNodeMetrics.  The two members of its Promise.all run one after *)
(* the other here (they touch different cache entries); the second runs to *)
(* its end also when the first has thrown, as a started promise does.      *)

\* a hit in the in-process tier hands out the stored array itself, a hit in
\* the remote tier a freshly parsed one
GcmGet ==
  /\ pc = "gcm_get"
  /\ \E cmd \in CmdOutcomes :
       LET remote == getFromRedis(analyticsCacheService \o NODE_METRICS_CACHE_KEY, cmd)
           cached == RedisCacheServiceGet(analyticsCacheService, NODE_METRICS_CACHE_KEY, cmd) IN
       IF cached.raised THEN Return(Thrown) /\ UNCHANGED frame
       ELSE IF cached.found
         THEN /\ Return(Found(cached.value))
              /\ frame' = [frame EXCEPT !.shared = ~remote.found]
         ELSE /\ Call("raw_get", "gcm_pods")
              /\ UNCHANGED <<rv, frame>>
  /\ UNCHANGED <<cacheVars, histVars, sideVars, op, disc, seed, calls, ghost, result>>

\* getRawPodsForAnalytics() has settled; getAllPNodes() runs
GcmPods ==
  /\ pc = "gcm_pods"
  /\ frame' = [frame EXCEPT !.pods = rv]
  /\ Call("gap_get", "gcm_nodes")
  /\ UNCHANGED <<cacheVars, histVars, sideVars, op, disc, seed, rv, calls, ghost, result>>

\* both have settled: rethrow a rejection, else compute, cache and return
GcmNodes ==
  /\ pc = "gcm_nodes"
  /\ IF frame.pods.raised \/ rv.raised
       THEN /\ Return(Thrown)
            /\ frame' = [frame EXCEPT !.pods = Null]
            /\ UNCHANGED <<redisStore, localStore>>
       ELSE \E cmd \in CmdOutcomes :
              LET metrics == computeNodeMetricsFromData(frame.pods.value, rv.value)
                  w == RedisCacheServiceSet(analyticsCacheService, NODE_METRICS_CACHE_KEY,
                                            metrics, NODE_METRICS_CACHE_TTL_MS, cmd) IN
              /\ redisStore' = w.redis
              /\ localStore' = w.local
              /\ frame' = [frame EXCEPT !.pods = Null, !.shared = TRUE]
              /\ IF w.raised THEN Return(Thrown) ELSE Return(Found(metrics))
  /\ UNCHANGED <<redisClient, redisAvailable, conn, now, histVars, sideVars,
                 op, disc, seed, calls, ghost, result>>

GetCachedNodeMetricsSteps ==
  \/ GcmGet
  \/ GcmPods
  \/ GcmNodes

----------------------------------------------------------------------------
(* The exported functions of the analytics service *)

\* getAnalyticsSummary: getAllPNodes() has returned
SumNodes ==
  /\ pc = "sum_nodes"
  /\ IF rv.raised
       THEN Return(Thrown) /\ UNCHANGED frame
       ELSE /\ frame' = [frame EXCEPT !.nodes = rv.value]
            /\ Call("raw_get", "sum_pods")
            /\ UNCHANGED rv
  /\ UNCHANGED <<cacheVars, histVars, sideVars, op, disc, seed, calls, ghost, result>>

\* getAnalyticsSummary: getRawPodsForAnalytics() has returned
SumPods ==
  /\ pc = "sum_pods"
  /\ IF rv.raised THEN Return(Thrown)
     ELSE Return(Found(AnalyticsSummaryOf(frame.nodes, rv.value, now)))
  /\ UNCHANGED <<cacheVars, histVars, sideVars, op, frame, disc, seed, calls, ghost, result>>

\* getExtendedSummary: getCachedNodeMetrics() has returned
ExtMetrics ==
  /\ pc = "ext_metrics"
  /\ IF rv.raised
       THEN Return(Thrown) /\ UNCHANGED frame
       ELSE /\ frame' = [frame EXCEPT !.metrics = rv.value]
            /\ Call("gap_get", "ext_nodes")
            /\ UNCHANGED rv
  /\ UNCHANGED <<cacheVars, histVars, sideVars, op, disc, seed, calls, ghost, result>>

\* getExtendedSummary: getAllPNodes() has returned
ExtNodes ==
  /\ pc = "ext_nodes"
  /\ IF rv.raised THEN Return(Thrown)
     ELSE Return(Found(ExtendedSummaryOf(frame.metrics, rv.value)))
  /\ UNCHANGED <<cacheVars, histVars, sideVars, op, frame, disc, seed, calls, ghost, result>>

\* getTopNodes: getCachedNodeMetrics() has returned.  Array.prototype.sort
\* sorts the array it is called on: when that array is the one held by the
\* in-process tier, the cache entry is reordered with it.
TopMetrics ==
  /\ pc = "top_metrics"
  /\ IF rv.raised
       THEN Return(Thrown) /\ UNCHANGED localStore
       ELSE LET sorted == sortByHealthScore(rv.value) IN
            /\ localStore' =
                 IF frame.shared /\ NODE_METRICS_CACHE_KEY \in DOMAIN localStore
                   THEN [localStore EXCEPT ![NODE_METRICS_CACHE_KEY].value = sorted]
                   ELSE localStore
            /\ Return(Found(TopNodesOf(sorted)))
  /\ UNCHANGED <<redisClient, redisAvailable, conn, redisStore, now, histVars, sideVars,
                 op, frame, disc, seed, calls, ghost, result>>

\* getStoragePressure: getCachedNodeMetrics() has returned
SpMetrics ==
  /\ pc = "sp_metrics"
  /\ IF rv.raised THEN Return(Thrown)
     ELSE Return(Found(StoragePressureOf(rv.value)))
  /\ UNCHANGED <<cacheVars, histVars, sideVars, op, frame, disc, seed, calls, ghost, result>>

AnalyticsSteps ==
  \/ SumNodes
  \/ SumPods
  \/ ExtMetrics
  \/ ExtNodes
  \/ TopMetrics
  \/ SpMetrics

----------------------------------------------------------------------------
(* Spec: getAllPNodes and refreshPNodes called by the transport layer, one *)
(* call at a time, while the remote tier changes health and time passes    *)

Init ==
  /\ InitCacheVars
  /\ InitHistVars
  /\ InitSvcVars
  /\ InitSideVars

Environment ==
  \/ InitRedis
  \/ RedisError
  \/ RedisReconnecting
  \/ RedisConnect
  \/ Tick

GetAllPNodesSteps ==
  \/ GapGet
  \/ DiscStats
  \/ DiscPods
  \/ DiscSeed
  \/ GapSet

Next ==
  \/ \E o \in DiscoveryOps : Start(o)
  \/ RefreshDelete
  \/ GetAllPNodesSteps
  \/ RetTop
  \/ Environment

Spec == Init /\ [][Next]_vars

----------------------------------------------------------------------------
(* Claims about getAllPNodes and refreshPNodes, checked under Spec *)

NoDuplicatePubkey(nodes) ==
  \A i, j \in 1..Len(nodes) : i # j => nodes[i].pubkey # nodes[j].pubkey

NoEmptyPubkey(nodes) == \A i \in 1..Len(nodes) : nodes[i].pubkey # ""

\* C1: every list returned by getAllPNodes (directly or through
\* refreshPNodes), whether it was discovered or read from the cache, has no
\* two entries with the same pubkey and no entry with an empty pubkey.
C1_DedupInvariant ==
  (result.op \in DiscoveryOps /\ ~result.raised)
    => NoDuplicatePubkey(result.value) /\ NoEmptyPubkey(result.value)

\* a call answered from the cache with a list of two nodes
C1_Witness ==
  /\ result.op = "getAllPNodes"
  /\ ~result.raised
  /\ result.served = "cache"
  /\ Len(result.value) = 2

\* C3: a getAllPNodes call that found no cache entry and whose gossip
\* operations all failed returns the empty list and raises nothing.
C3_TotalFailureYieldsEmptyList ==
  (result.op = "getAllPNodes" /\ result.served # "cache" /\ ~result.anyOk)
    => ~result.raised /\ result.value = <<>>

\* both tiers were empty, the primary and the last seed were tried, nothing
\* answered
C3_Witness ==
  /\ result.op = "getAllPNodes"
  /\ result.cold
  /\ result.served = "discovery"
  /\ result.exhausted
  /\ ~result.anyOk
  /\ ~result.raised
  /\ result.value = <<>>

\* C9: the list refreshPNodes returns comes from a discovery round of that
\* call, never from a cache entry.  (One call runs at a time, so an entry
\* the call reads was written before the call began.)
C9_RefreshRediscovers ==
  (result.op = "refreshPNodes" /\ ~result.raised) => result.served = "discovery"

----------------------------------------------------------------------------
(* SpecMap: getAllPNodes and getAllPNodesForMap in a deployment whose      *)
(* initRedis never succeeds (redisClient stays null), so that both         *)
(* accessors cache in the in-process tier only                             *)

GetAllPNodesForMapSteps ==
  \/ MapGet
  \/ MapStats
  \/ MapPods
  \/ MapSeed
  \/ MapSet

NextMap ==
  \/ \E o \in MapOps : Start(o)
  \/ GetAllPNodesSteps
  \/ GetAllPNodesForMapSteps
  \/ RetTop
  \/ Tick

SpecMap == Init /\ [][NextMap]_vars


----------------------------------------------------------------------------
(* Claims about the two accessors, checked under SpecMap *)

\* the discovery round of the call met two records with the same pubkey at
\* different addresses
SamePubkeyTwice(nodes) ==
  \E i, j \in 1..Len(nodes) :
    /\ i < j
    /\ nodes[i].pubkey = nodes[j].pubkey
    /\ nodes[i].address # nodes[j].address

\* an entry of the returned list is the normalised record n (enrichment may
\* have added RAM fields)
SameRecord(e, n) == \A f \in DOMAIN n : e[f] = n[f]

FirstWith(nodes, pubkey) ==
  CHOOSE i \in 1..Len(nodes) :
    /\ nodes[i].pubkey = pubkey
    /\ \A j \in 1..(i - 1) : nodes[j].pubkey # pubkey

\* C2: when the gossip response holds two usable records with the same
\* pubkey at different addresses, getAllPNodes returns exactly one entry for
\* each pubkey, the record that came first, and getAllPNodesForMap returns
\* every record in response order.
C2_FirstWinsMapKeepsBoth ==
  (result.op \in MapOps /\ ~result.raised /\ result.served = "discovery"
     /\ SamePubkeyTwice(result.discovered))
    => IF result.op = "getAllPNodes"
         THEN \A i \in 1..Len(result.discovered) :
                LET pubkey == result.discovered[i].pubkey
                    entries == {k \in 1..Len(result.value) :
                                  result.value[k].pubkey = pubkey} IN
                /\ Cardinality(entries) = 1
                /\ \A k \in entries :
                     SameRecord(result.value[k],
                                result.discovered[FirstWith(result.discovered, pubkey)])
         ELSE /\ Len(result.value) = Len(result.discovered)
              /\ \A i \in 1..Len(result.discovered) :
                   SameRecord(result.value[i], result.discovered[i])

\* the map accessor has returned two entries with one pubkey
C2_Witness ==
  /\ result.op = "getAllPNodesForMap"
  /\ ~result.raised
  /\ result.served = "discovery"
  /\ SamePubkeyTwice(result.discovered)
  /\ Len(result.value) = 2
  /\ result.value[1].address.ip = "10.0.0.1"
  /\ result.value[2].address.ip = "8.8.8.8"

----------------------------------------------------------------------------
(* Geo service: batchResolveGeo.  Coordinates are in 1/10000 degree.  The  *)
(* addresses of PodUniverse are all well-formed IPv4 addresses.            *)

GEO_CACHE_KEY_PREFIX == "geo:"
GEO_CACHE_TTL_MS == 86400000

extractIP(address) == address.ip

\* 10.0.0.0/8 is the private range met among the addresses of PodUniverse
isPrivateIP(ip) == ip \in {"10.0.0.1"}

DEFAULT_PRIVATE_IP_GEO ==
  [lat |-> 488566, lng |-> 23522, country |-> "France", countryCode |-> "FR"]

\* what ip-api.com says about a public address it can resolve
GeoLocationOf(ip) ==
  IF ip = "8.8.8.8"
    THEN [lat |-> 374056, lng |-> -1220775, country |-> "United States", countryCode |-> "US"]
    ELSE [lat |-> 525200, lng |-> 134050, country |-> "Germany", countryCode |-> "DE"]

PublicIPs == {p.address.ip : p \in PodUniverse} \ {ip \in {p.address.ip : p \in PodUniverse} : isPrivateIP(ip)}

\* the batch request fails (throws, times out, status not ok), or answers
\* with the addresses it resolved
GeoOutcomes == {[ok |-> FALSE]} \cup {[ok |-> TRUE, resolved |-> S] : S \in SUBSET PublicIPs}

\* for (const item of data) { ...; results.set(ip, geo); await geoCacheService.set(...) }
RECURSIVE geoProcess(_, _, _, _)
geoProcess(ips, api, acc, cmd) ==
  IF ips = <<>> THEN acc
  ELSE LET ip == Head(ips) IN
       IF ip \notin api.resolved THEN geoProcess(Tail(ips), api, acc, cmd)
       ELSE LET geo == GeoLocationOf(ip)
                cacheKey == GEO_CACHE_KEY_PREFIX \o ip
                r == setInRedis(acc.redis, REDIS_KEY_PREFIX_GEO \o cacheKey, geo,
                                GEO_CACHE_TTL_MS \div 1000, cmd) IN
            geoProcess(Tail(ips), api,
                       [results |-> Put(acc.results, ip, geo),
                        redis |-> r.store,
                        local |-> cacheServiceSet(acc.local, cacheKey, geo, GEO_CACHE_TTL_MS)],
                       cmd)

\* the map from IP to location, and the new contents of both cache tiers
batchResolveGeo(addresses, api, cmd) ==
  LET ips == [i \in 1..Len(addresses) |-> extractIP(addresses[i])]
      privateIps == {ips[i] : i \in {j \in 1..Len(ips) : isPrivateIP(ips[j])}}
      publicIps == SelectSeq(ips, LAMBDA ip : ~isPrivateIP(ip))
      fromCache(ip) == GeoCacheServiceGet(GEO_CACHE_KEY_PREFIX \o ip, cmd)
      cachedIps == {publicIps[i] : i \in {j \in 1..Len(publicIps) : fromCache(publicIps[j]).found}}
      uncachedIps == SelectSeq(publicIps, LAMBDA ip : ~fromCache(ip).found)
      results == [ip \in privateIps \cup cachedIps |->
                    IF ip \in privateIps THEN DEFAULT_PRIVATE_IP_GEO
                    ELSE fromCache(ip).value]
      start == [results |-> results, redis |-> redisStore, local |-> localStore]
  IN IF uncachedIps = <<>> \/ ~api.ok THEN start
     ELSE geoProcess(uncachedIps, api, start, cmd)

\* new Map(metrics.map((m) => [m.pubkey, m])).get(pubkey): the last entry wins
metricsMapGet(metrics, pubkey) ==
  LET at == {i \in 1..Len(metrics) : metrics[i].pubkey = pubkey} IN
  IF at = {} THEN Null
  ELSE Found(metrics[CHOOSE i \in at : \A j \in at : j <= i])

RECURSIVE buildMapNodes(_, _, _)
buildMapNodes(nodes, geoMap, metrics) ==
  IF nodes = <<>> THEN <<>>
  ELSE LET node == Head(nodes)
           ip == node.address.ip
           rest == buildMapNodes(Tail(nodes), geoMap, metrics) IN
       IF ip \notin DOMAIN geoMap THEN rest
       ELSE LET geo == geoMap[ip]
                nodeMetrics == metricsMapGet(metrics, node.pubkey) IN
            <<[pubkey |-> node.pubkey,
               lat |-> geo.lat, lng |-> geo.lng,
               country |-> geo.country, countryCode |-> geo.countryCode,
               status |-> node.status,
               healthScore |-> IF nodeMetrics.found THEN nodeMetrics.value.healthScore ELSE 0,
               uptime24h |-> IF nodeMetrics.found THEN nodeMetrics.value.uptime24h ELSE 0,
               storageUtilization |->
                 IF nodeMetrics.found THEN nodeMetrics.value.storageUtilization ELSE 0]>>
            \o rest

----------------------------------------------------------------------------
(* Map service: getMapNodes.  The members of its Promise.all run one after *)
(* the other, as in getCachedNodeMetrics.                                  *)

\* getAllPNodes() has settled; getCachedNodeMetrics() runs
MnNodes ==
  /\ pc = "mn_nodes"
  /\ frame' = [frame EXCEPT !.nodes = rv]
  /\ Call("gcm_get", "mn_metrics")
  /\ UNCHANGED <<cacheVars, histVars, sideVars, op, disc, seed, rv, calls, ghost, result>>

\* both have settled: the catch block logs and rethrows a rejection; else
\* the addresses are resolved and the MapNode array is built
MnMetrics ==
  /\ pc = "mn_metrics"
  /\ IF frame.nodes.raised \/ rv.raised
       THEN /\ Return(Thrown)
            /\ UNCHANGED <<redisStore, localStore>>
       ELSE \E api \in GeoOutcomes, cmd \in CmdOutcomes :
              LET nodes == frame.nodes.value
                  g == batchResolveGeo([i \in 1..Len(nodes) |-> nodes[i].address], api, cmd) IN
              /\ redisStore' = g.redis
              /\ localStore' = g.local
              /\ Return(Found(buildMapNodes(nodes, g.results, rv.value)))
  /\ UNCHANGED <<redisClient, redisAvailable, conn, now, histVars, sideVars,
                 op, frame, disc, seed, calls, ghost, result>>

GetMapNodesSteps ==
  \/ MnNodes
  \/ MnMetrics

----------------------------------------------------------------------------
(* SpecAnalytics: the analytics and map services called by the transport   *)
(* layer, one call at a time, in a deployment whose initRedis never        *)
(* succeeds                                                                *)

NextAnalytics ==
  \/ \E o \in AnalyticsOps : Start(o)
  \/ GetAllPNodesSteps
  \/ GetRawPodsForAnalyticsSteps
  \/ GetCachedNodeMetricsSteps
  \/ AnalyticsSteps
  \/ GetMapNodesSteps
  \/ RetTop
  \/ Tick

SpecAnalytics == Init /\ [][NextAnalytics]_vars

----------------------------------------------------------------------------
(* Claims about the analytics and map services, checked under SpecAnalytics *)

ZeroedSummary ==
  [totalPNodes |-> 0, onlinePNodes |-> 0, onlinePercentage |-> 0, totalPods |-> 0,
   activePods |-> 0, averageUptime |-> 0, totalStorageUsed |-> 0,
   totalStorageCapacity |-> 0, networkHealth |-> "unstable"]

\* C4: a getAnalyticsSummary call that began with all caches empty and
\* whose gossip operations all failed raises nothing and returns the
\* summary with zero counts, percentages and storage totals.
C4_SummaryZeroedOnTotalFailure ==
  (result.op = "getAnalyticsSummary" /\ result.cold /\ ~result.anyOk)
    => ~result.raised /\ result.value = ZeroedSummary

\* C5: getNodeMetrics, getExtendedSummary, getTopNodes, getStoragePressure
\* and getMapNodes never let an exception escape to the caller.
C5_ServiceFunctionsNeverRaise ==
  result.op \in {"getNodeMetrics", "getExtendedSummary", "getTopNodes",
                 "getStoragePressure", "getMapNodes"}
    => ~result.raised

----------------------------------------------------------------------------
(* Stats enrichment job (stats-enrichment.service.ts)                      *)
(*                                                                         *)
(* The runtime is one event loop: the code between two awaits runs without *)
(* interleaving, so every action below is one such stretch.  A run is the  *)
(* part of an invocation of preFetchAllNodeStats that follows the guard;   *)
(* it is kept in runs until its finally block has executed.  Only the      *)
(* number of online nodes of the list and the number of unsettled fetches  *)
(* of the current batch are kept of a run; what a fetch stores in the      *)
(* stats cache is not part of this specification.                          *)

MaxInvocations == 4  \* invocations of preFetchAllNodeStats per behaviour
MaxStarts == 2       \* calls of startStatsEnrichmentJob per behaviour
MaxOnline == 16      \* online nodes in the list a run reads

ENRICHMENT_INTERVAL_MS == 90000
BATCH_SIZE == 15

JobSources == {"start", "timer", "direct"}

RemoveAt(s, k) == SubSeq(s, 1, k - 1) \o SubSeq(s, k + 1, Len(s))

skipsNever(running) == FALSE

(* if (isRunning) { ...; return; } *)
skipsWhenRunning(running) == running

batchLengthAll(n, i) == n - i

(* What the promise of one node resolves to: the stats were cached, were   *)
(* fetched, or the fetch failed (null or an exception, both counted)       *)
FetchOutcomes == {"cached", "fetched", "failed"}

(* The batch that starts at offset i of n online nodes: slice(i, i + BATCH_SIZE) *)
batchLength(n, i) == Min(BATCH_SIZE, n - i)

(* The stretch of preFetchAllNodeStats up to its first await: the guard,   *)
(* isRunning = true and the call of getAllPNodes.  h is the history record *)
(* the caller hands on.                                                    *)
preFetchAllNodeStats(src, h) ==
  LET skipped == skipsWhenRunning(isRunning) IN
  /\ IF skipped
       THEN UNCHANGED <<isRunning, runs>>
       ELSE /\ isRunning' = TRUE
            /\ runs' = Append(runs, [src |-> src, pc |-> "nodes", online |-> 0,
                                     i |-> 0, pending |-> 0, failed |-> FALSE])
  /\ jobHist' = [h EXCEPT !.invocations = @ + 1,
                          !.src = src,
                          !.busy = Len(runs) > 0,
                          !.entered = ~skipped,
                          !.afterStop = h.stopped]

startStatsEnrichmentJob ==
  /\ jobHist.starts < MaxStarts
  /\ jobHist.invocations < MaxInvocations
  /\ preFetchAllNodeStats("start", [jobHist EXCEPT !.starts = @ + 1,
                                                   !.stopped = FALSE])
  /\ LET handle == jobHist.starts + 1 IN
       /\ timers' = timers \cup {[id |-> handle, every |-> ENRICHMENT_INTERVAL_MS]}
       /\ enrichmentInterval' = handle
  /\ UNCHANGED <<cacheVars, histVars, svcVars, calc, ovVars>>

stopStatsEnrichmentJob ==
  /\ IF enrichmentInterval # 0
       THEN /\ timers' = {t \in timers : t.id # enrichmentInterval}
            /\ enrichmentInterval' = 0
       ELSE UNCHANGED <<timers, enrichmentInterval>>
  /\ jobHist' = [jobHist EXCEPT !.stopped = TRUE]
  /\ UNCHANGED <<isRunning, runs, cacheVars, histVars, svcVars, calc, ovVars>>

(* The callback of a live interval: () => preFetchAllNodeStats() *)
TimerFires(t) ==
  /\ t \in timers
  /\ jobHist.invocations < MaxInvocations
  /\ preFetchAllNodeStats("timer", jobHist)
  /\ UNCHANGED <<timers, enrichmentInterval, cacheVars, histVars, svcVars, calc, ovVars>>

(* preFetchAllNodeStats is exported: a call that no timer made *)
DirectCall ==
  /\ jobHist.invocations < MaxInvocations
  /\ preFetchAllNodeStats("direct", jobHist)
  /\ UNCHANGED <<timers, enrichmentInterval, cacheVars, histVars, svcVars, calc, ovVars>>

RunEndsNoFinally(k) ==
  /\ runs' = RemoveAt(runs, k)
  /\ UNCHANGED isRunning

(* finally { isRunning = false; }, after which the run is over *)
RunEnds(k) ==
  /\ isRunning' = FALSE
  /\ runs' = RemoveAt(runs, k)

(* Numbers of online nodes a node list may hold: none, one, a full batch,  *)
(* one more than a batch, and the largest list of the model                *)
OnlineCounts == {0, 1, BATCH_SIZE, BATCH_SIZE + 1, MaxOnline}

(* await getAllPNodes() settles: it rejects (catch, then finally), or it   *)
(* resolves with a list of n online nodes; for n > 0 the batch of offset 0 *)
(* is launched.                                                            *)
RunNodes(k) ==
  /\ k \in 1..Len(runs)
  /\ runs[k].pc = "nodes"
  /\ \/ RunEnds(k)
     \/ \E n \in OnlineCounts :
          IF n = 0
            THEN RunEnds(k)
            ELSE /\ runs' = [runs EXCEPT ![k] = [@ EXCEPT !.pc = "batch",
                                                         !.online = n,
                                                         !.i = 0,
                                                         !.pending = batchLength(n, 0)]]
                 /\ UNCHANGED isRunning
  /\ UNCHANGED <<timers, enrichmentInterval, jobHist, cacheVars, histVars, svcVars, calc, ovVars>>

(* One promise of the batch settles; failed keeps whether failCount > 0 *)
FetchSettles(k) ==
  /\ k \in 1..Len(runs)
  /\ runs[k].pc = "batch"
  /\ runs[k].pending > 0
  /\ \E outcome \in FetchOutcomes :
       runs' = [runs EXCEPT ![k] = [@ EXCEPT !.pending = @ - 1,
                                            !.failed = @ \/ outcome = "failed"]]
  /\ UNCHANGED <<isRunning, timers, enrichmentInterval, jobHist,
                 cacheVars, histVars, svcVars, calc, ovVars>>

(* await Promise.allSettled(promises) resolves *)
BatchSettled(k) ==
  /\ k \in 1..Len(runs)
  /\ runs[k].pc = "batch"
  /\ runs[k].pending = 0
  /\ IF runs[k].i + BATCH_SIZE < runs[k].online
       THEN /\ runs' = [runs EXCEPT ![k] = [@ EXCEPT !.pc = "delay"]]
            /\ UNCHANGED isRunning
       ELSE RunEnds(k)
  /\ UNCHANGED <<timers, enrichmentInterval, jobHist, cacheVars, histVars, svcVars, calc, ovVars>>

(* The delay between two batches is over; the next batch is launched *)
DelayElapsed(k) ==
  /\ k \in 1..Len(runs)
  /\ runs[k].pc = "delay"
  /\ LET next == runs[k].i + BATCH_SIZE IN
       runs' = [runs EXCEPT ![k] = [@ EXCEPT !.pc = "batch",
                                            !.i = next,
                                            !.pending = batchLength(runs[k].online, next)]]
  /\ UNCHANGED <<isRunning, timers, enrichmentInterval, jobHist,
                 cacheVars, histVars, svcVars, calc, ovVars>>

JobHandles == [id : 1..MaxStarts, every : {ENRICHMENT_INTERVAL_MS}]

NextJob ==
  \/ startStatsEnrichmentJob
  \/ stopStatsEnrichmentJob
  \/ \E t \in JobHandles : TimerFires(t)
  \/ DirectCall
  \/ \E k \in 1..MaxInvocations : RunNodes(k)
  \/ \E k \in 1..MaxInvocations : FetchSettles(k)
  \/ \E k \in 1..MaxInvocations : BatchSettled(k)
  \/ \E k \in 1..MaxInvocations : DelayElapsed(k)

SpecJob == Init /\ [][NextJob]_vars

(* C11: at most one run of preFetchAllNodeStats is in flight, and an       *)
(* invocation made while a run is in flight does not get past the guard    *)
(* (it reads no node list and issues no fetch), whatever made it.          *)
C11_AtMostOneRun ==
  /\ Len(runs) <= 1
  /\ isRunning = (Len(runs) = 1)
  /\ jobHist.busy => ~jobHist.entered

C11_Witness ==
  /\ jobHist.src \in {"timer", "direct"}
  /\ jobHist.busy
  /\ ~jobHist.entered
  /\ Len(runs) = 1
  /\ runs[1].pc = "batch"
  /\ runs[1].pending > 0

(* C12: startStatsEnrichmentJob makes one invocation at once and leaves a  *)
(* live interval of 90 s behind, and once stopStatsEnrichmentJob has       *)
(* returned no interval callback invokes preFetchAllNodeStats until the    *)
(* job is started again, for every sequence of start and stop calls.       *)
C12_NoTimerRunAfterStop ==
  /\ enrichmentInterval # 0 =>
       [id |-> enrichmentInterval, every |-> ENRICHMENT_INTERVAL_MS] \in timers
  /\ jobHist.src = "timer" => ~jobHist.afterStop

----------------------------------------------------------------------------
(* The pure functions of format.ts and analytics.service.ts, each applied  *)
(* once to an input drawn by the initial state.  Percentages and scores    *)
(* are integers counting hundredths (9000 is 90.00); storage is counted in *)
(* units of 10^9 bytes.                                                    *)

AgeSpan == 2         \* ages of last_seen within AgeSpan seconds of the threshold
GridStep == 2500     \* distance of two grid percentages, in hundredths
GridSteps == 6       \* the grid reaches GridSteps steps to both sides of 0
MaxScore == 10000    \* health scores handed to getNodeTier: 0..MaxScore
MaxNodes == 20       \* nodes in the list handed to getAnalyticsSummary

CalcNows == {k * TickMs + ms : k \in 0..MaxTicks, ms \in {0, 999}}
CalcAges == {10} \cup ((ONLINE_THRESHOLD_SECONDS - AgeSpan)..(ONLINE_THRESHOLD_SECONDS + AgeSpan))
CalcUptimes == {-1, 0, 50, 100, 101, 43200, 86400, 2592000, 5184000}
CalcStorage == {<<0, 0>>, <<500, 1000>>, <<150, 100>>, <<50, 0>>}

\* records that differ in the three storage fields only
StoragePods ==
  {[Pod("abc", "8.8.8.8", 0, 0, used, committed) EXCEPT !.storage_usage_percent = pct] :
     used \in {0, 50, 500}, committed \in {-5, 0, 1000}, pct \in {-10, 0, 30, 100, 101}}

NormalizeInputs ==
  {[pod |-> Pod("abc", "8.8.8.8", (nowMs \div 1000) - age, u, st[1], st[2]),
    nowMs |-> nowMs] :
     nowMs \in CalcNows, age \in CalcAges, u \in CalcUptimes, st \in CalcStorage}
    \cup {[pod |-> p, nowMs |-> 0] : p \in StoragePods}

Grid == {k * GridStep : k \in (-GridSteps)..GridSteps} \cup {0, 5000, 10000}

HealthInputs ==
  [uptime24h : Grid, storageUtilization : Grid, isOnline : BOOLEAN]

TierInputs == [healthScore : 0..MaxScore]

MetricPods ==
  {Pod("abc", "8.8.8.8", ls, u, st[1], st[2]) :
     ls \in {0, -600}, u \in {-1, 43200, 2592000}, st \in CalcStorage}
    \cup {PodX2}

\* the raw telemetry and the node list that getCachedNodeMetrics hands over
MetricsInputs ==
  {[pods |-> ps, nodes |-> dedupe(pushNormalized(<<>>, ps, 0))] :
     ps \in SeqsUpTo(MetricPods, MaxPods)}

\* a telemetry list of total records of which the first online are fresh,
\* and the node list discovery makes of it at time 0
SummaryPods(total, online) ==
  [i \in 1..total |->
     Pod("n" \o ToString(i), "8.8.8.8", IF i <= online THEN 0 ELSE -600, 86400, 50, 100)]

SummaryInputs ==
  UNION {{[nodes |-> dedupe(pushNormalized(<<>>, SummaryPods(total, online), 0)),
           rawPods |-> SummaryPods(total, online),
           nowMs |-> 0] : online \in 0..total} : total \in 0..MaxNodes}

CalcInputs ==
  {[fn |-> "none", for |-> "normalizePNode", arg |-> a] : a \in NormalizeInputs}
    \cup {[fn |-> "none", for |-> "calculateHealthScore", arg |-> a] : a \in HealthInputs}
    \cup {[fn |-> "none", for |-> "getNodeTier", arg |-> a] : a \in TierInputs}
    \cup {[fn |-> "none", for |-> "getAnalyticsSummary", arg |-> a] : a \in SummaryInputs}
    \cup {[fn |-> "none", for |-> "computeNodeMetricsFromData", arg |-> a] :
            a \in MetricsInputs}

Applied(name, out) == [fn |-> name, arg |-> calc.arg, out |-> out]

CalcFrame == UNCHANGED <<cacheVars, histVars, svcVars, jobVars, ovVars>>

ApplyNormalizePNode ==
  /\ calc.fn = "none"
  /\ calc.for = "normalizePNode"
  /\ calc' = Applied("normalizePNode", normalizePNode(calc.arg.pod, calc.arg.nowMs))
  /\ CalcFrame

ApplyCalculateHealthScore ==
  /\ calc.fn = "none"
  /\ calc.for = "calculateHealthScore"
  /\ calc' = Applied("calculateHealthScore",
                     calculateHealthScore(calc.arg.uptime24h,
                                          calc.arg.storageUtilization,
                                          calc.arg.isOnline))
  /\ CalcFrame

ApplyGetNodeTier ==
  /\ calc.fn = "none"
  /\ calc.for = "getNodeTier"
  /\ calc' = Applied("getNodeTier", getNodeTier(calc.arg.healthScore))
  /\ CalcFrame

ApplyComputeNodeMetricsFromData ==
  /\ calc.fn = "none"
  /\ calc.for = "computeNodeMetricsFromData"
  /\ calc' = Applied("computeNodeMetricsFromData",
                     computeNodeMetricsFromData(calc.arg.pods, calc.arg.nodes))
  /\ CalcFrame

ApplyGetAnalyticsSummary ==
  /\ calc.fn = "none"
  /\ calc.for = "getAnalyticsSummary"
  /\ calc' = Applied("getAnalyticsSummary",
                     AnalyticsSummaryOf(calc.arg.nodes, calc.arg.rawPods, calc.arg.nowMs))
  /\ CalcFrame

InitCalc ==
  /\ InitCacheVars
  /\ InitHistVars
  /\ InitSvcVars
  /\ InitJobVars
  /\ InitOvVars
  /\ calc \in CalcInputs

NextCalc ==
  \/ ApplyNormalizePNode
  \/ ApplyCalculateHealthScore
  \/ ApplyGetNodeTier
  \/ ApplyGetAnalyticsSummary
  \/ ApplyComputeNodeMetricsFromData

SpecCalc == InitCalc /\ [][NextCalc]_vars

(* C13: with the threshold of 300 s, normalizePNode gives status online    *)
(* iff now - last_seen_timestamp <= 300, now being the clock in whole      *)
(* seconds: now - 300 is online and now - 301 is offline.                  *)
C13_OnlineIffWithinThreshold ==
  calc.fn = "normalizePNode" =>
    LET nowSec == calc.arg.nowMs \div 1000
        age == nowSec - calc.arg.pod.last_seen_timestamp IN
    /\ ~calc.out.raised
    /\ (calc.out.value.status = "online") <=> (age <= 300)
    /\ calc.out.value.status \in {"online", "offline"}

C13_Witness ==
  /\ calc.fn = "normalizePNode"
  /\ calc.arg.nowMs % 1000 # 0
  /\ calc.arg.pod.last_seen_timestamp = (calc.arg.nowMs \div 1000) - 300
  /\ calc.out.value.status = "online"

Clamp100(x) == Min(10000, Max(0, x))

(* C14: for every uptime24h and storageUtilization, inside or outside      *)
(* 0..100, and every isOnline, calculateHealthScore returns                *)
(* round2(clamp(uptime24h) * 0.5 + (100 - clamp(storageUtilization)) * 0.3 *)
(* + (isOnline ? 100 : 0) * 0.2) clamped to 0..100; 50, 50, online gives   *)
(* 60.00.                                                                  *)
C14_HealthScoreFormula ==
  calc.fn = "calculateHealthScore" =>
    LET weighted == Clamp100(calc.arg.uptime24h) * 5
                    + (10000 - Clamp100(calc.arg.storageUtilization)) * 3
                    + (IF calc.arg.isOnline THEN 10000 ELSE 0) * 2 IN
    /\ calc.out = RoundDiv(Min(100000, Max(0, weighted)), 10)
    /\ (calc.arg = [uptime24h |-> 5000, storageUtilization |-> 5000, isOnline |-> TRUE]
          => calc.out = 6000)

(* C15: every healthScore the pipeline produces lies in 0..100, whatever   *)
(* the raw uptime, storage and online status.                              *)
C15_HealthScoreInRange ==
  /\ calc.fn = "calculateHealthScore" => (0 <= calc.out /\ calc.out <= 10000)
  /\ calc.fn = "computeNodeMetricsFromData" =>
       \A i \in 1..Len(calc.out) :
         0 <= calc.out[i].healthScore /\ calc.out[i].healthScore <= 10000

C15_Witness ==
  /\ calc.fn = "calculateHealthScore"
  /\ calc.arg.uptime24h > 10000
  /\ calc.arg.storageUtilization < 0
  /\ calc.arg.isOnline
  /\ calc.out = 10000

(* C16: getNodeTier(n) is Excellent iff n >= 90, Good iff 75 <= n < 90 and *)
(* Poor iff n < 75, and the tier of every NodeMetrics entry is getNodeTier *)
(* of the healthScore of that entry.                                       *)
C16_TierThresholds ==
  /\ calc.fn = "getNodeTier" =>
       LET n == calc.arg.healthScore IN
       /\ (calc.out = "Excellent") <=> (n >= 9000)
       /\ (calc.out = "Good") <=> (7500 <= n /\ n < 9000)
       /\ (calc.out = "Poor") <=> (n < 7500)
  /\ calc.fn = "computeNodeMetricsFromData" =>
       \A i \in 1..Len(calc.out) :
         LET n == calc.out[i].healthScore IN
         /\ (calc.out[i].tier = "Excellent") <=> (n >= 9000)
         /\ (calc.out[i].tier = "Good") <=> (7500 <= n /\ n < 9000)
         /\ (calc.out[i].tier = "Poor") <=> (n < 7500)

C16_Witness ==
  /\ calc.fn = "getNodeTier"
  /\ calc.arg.healthScore = 9000
  /\ calc.out = "Excellent"

(* C19: every NodeMetrics entry has 0 <= uptime24h <= 100 and              *)
(* 0 <= storageUtilization <= 100, and storageUtilization = 0 when the     *)
(* committed capacity is zero, also when storage_used exceeds              *)
(* storage_committed.                                                      *)
C19_MetricsInRange ==
  calc.fn = "computeNodeMetricsFromData" =>
    /\ \A i \in 1..Len(calc.out) :
         /\ 0 <= calc.out[i].uptime24h /\ calc.out[i].uptime24h <= 10000
         /\ 0 <= calc.out[i].storageUtilization
         /\ calc.out[i].storageUtilization <= 10000
    /\ Len(calc.out) = Len(calc.arg.pods) =>
         \A i \in 1..Len(calc.out) :
           calc.arg.pods[i].storage_committed = 0 => calc.out[i].storageUtilization = 0

OnlineIn(nodes) == Cardinality({i \in 1..Len(nodes) : nodes[i].status = "online"})

(* C17: getAnalyticsSummary reports onlinePercentage = round2(online nodes *)
(* / total nodes * 100), 0 when there are no nodes, and networkHealth      *)
(* healthy iff onlinePercentage >= 95, degraded iff 85 <= onlinePercentage *)
(* < 95, unstable otherwise; 9 of 10 online gives 90.00 and degraded.      *)
C17_OnlinePercentageAndHealth ==
  calc.fn = "getAnalyticsSummary" =>
    LET total == Len(calc.arg.nodes)
        online == OnlineIn(calc.arg.nodes)
        p == calc.out.onlinePercentage
        h == calc.out.networkHealth IN
    /\ total = 0 => p = 0
    /\ total > 0 => /\ (2 * p - 1) * total <= 20000 * online
                    /\ 20000 * online < (2 * p + 1) * total
    /\ (h = "healthy") <=> (p >= 9500)
    /\ (h = "degraded") <=> (8500 <= p /\ p < 9500)
    /\ (h = "unstable") <=> (p < 8500)
    /\ (total = 10 /\ online = 9) => (p = 9000 /\ h = "degraded")

C17_Witness ==
  /\ calc.fn = "getAnalyticsSummary"
  /\ Len(calc.arg.nodes) = 10
  /\ OnlineIn(calc.arg.nodes) = 9
  /\ calc.out.onlinePercentage = 9000
  /\ calc.out.networkHealth = "degraded"

(* C18: the raw record with pubkey "abc", uptime 43200, storage_used       *)
(* 500_000_000_000, storage_committed 1_000_000_000_000 and                *)
(* last_seen_timestamp now - 10 normalizes to status online, storageTotal  *)
(* 1_000_000_000_000 and uptime 50.                                        *)
C18_NormalizeExample ==
  (/\ calc.fn = "normalizePNode"
   /\ calc.arg.pod.pubkey = "abc"
   /\ calc.arg.pod.uptime = 43200
   /\ calc.arg.pod.storage_used = 500
   /\ calc.arg.pod.storage_committed = 1000
   /\ calc.arg.pod.last_seen_timestamp = (calc.arg.nowMs \div 1000) - 10)
  => /\ ~calc.out.raised
     /\ calc.out.value.status = "online"
     /\ calc.out.value.storageTotal = 1000
     /\ calc.out.value.uptime = 50

(* C20: the collection getNodeMetrics returns is keyed by pubkey: no two   *)
(* entries share a pubkey and no entry has an empty pubkey, also when the  *)
(* raw telemetry holds several records with the same pubkey.               *)
C20_MetricsKeyedByPubkey ==
  (result.op = "getNodeMetrics" /\ ~result.raised) =>
    /\ \A i, j \in 1..Len(result.value) :
         result.value[i].pubkey = result.value[j].pubkey => i = j
    /\ \A i \in 1..Len(result.value) : result.value[i].pubkey # ""

(* C21: in a discovery round of getAllPNodes a seed is contacted only      *)
(* while no endpoint has yielded a usable record; the seeds are asked in   *)
(* list order starting after the primary (index 0); once an endpoint has   *)
(* yielded a usable record no further endpoint is asked, so the round's    *)
(* result holds the records of one endpoint.  seed is the index of the     *)
(* next seed to ask; disc holds the usable records of the last answer.     *)
C21_SeedsOnlyAfterEmptyPrimary ==
  [][/\ pc \in {"disc_pods", "disc_seed"} => disc = <<>>
     /\ (pc' = "disc_seed" /\ <<pc, seed>>' # <<pc, seed>>) =>
          /\ disc' = <<>>
          /\ pc \in {"disc_stats", "disc_pods", "disc_seed"}
          /\ seed' \in 1..(Len(SEED_IPS) - 1)
          /\ seed' = IF pc = "disc_seed" THEN seed + 1 ELSE 1
     /\ (pc \in {"disc_stats", "disc_pods", "disc_seed"} /\ disc' # <<>>)
          => pc' = "gap_set"
     /\ (pc = "gap_set" /\ pc' # "gap_set") => pc' \notin {"disc_stats", "disc_pods", "disc_seed"}
    ]_vars

C21_Witness ==
  /\ op = "getAllPNodes"
  /\ pc = "gap_set"
  /\ seed = 3
  /\ disc # <<>>

(* C22: on a cache miss of getAllPNodesForMap, whenever the primary        *)
(* endpoint yields no usable record (its calls failed or it answered with  *)
(* an empty list) the seeds are tried in order until one returns a record: *)
(* a round that ends without a record has asked every seed.                *)
C22_MapEmptyPrimaryTriesSeeds ==
  (/\ result.op = "getAllPNodesForMap"
   /\ result.served = "discovery"
   /\ result.discovered = <<>>)
  => result.exhausted

(* C23: normalizePNode takes storageTotal from storage_committed when that *)
(* is present and positive, else from storage_used * 100 /                 *)
(* storage_usage_percent when the percentage is in (0, 100], else 0; a     *)
(* zero, missing or negative storage_committed never becomes storageTotal  *)
(* and storageTotal is never negative.                                     *)
C23_StorageTotalPriority ==
  calc.fn = "normalizePNode" =>
    LET p == calc.arg.pod
        storageTotal == calc.out.value.storageTotal IN
    /\ storageTotal =
         IF p.storage_committed > 0 THEN p.storage_committed
         ELSE IF p.storage_usage_percent > 0 /\ p.storage_usage_percent <= 100
           THEN RoundDiv(p.storage_used * 100, p.storage_usage_percent)
           ELSE 0
    /\ storageTotal >= 0

(* C24: for every raw uptime u, normalizePNode yields an uptime in 0..100: *)
(* min(100, u / 2592000 * 100) if u > 100, u itself if 0 <= u <= 100, and  *)
(* 0 if u < 0 or u is missing.  The model keeps the whole percents of the  *)
(* rescaled value.                                                         *)
C24_UptimeRange ==
  calc.fn = "normalizePNode" =>
    LET u == calc.arg.pod.uptime
        uptime == calc.out.value.uptime IN
    /\ 0 <= uptime /\ uptime <= 100
    /\ u > 100 =>
         IF u >= 2592000 THEN uptime = 100
         ELSE uptime * 2592000 <= u * 100 /\ u * 100 < (uptime + 1) * 2592000
    /\ (0 <= u /\ u <= 100) => uptime = u
    /\ u < 0 => uptime = 0

C24_Witness ==
  /\ calc.fn = "normalizePNode"
  /\ calc.arg.pod.uptime > 2592000
  /\ calc.out.value.uptime = 100

(* Every await of a run settles: the gossip and stats clients have         *)
(* timeouts, Promise.allSettled resolves once its promises have settled,   *)
(* and the timer of the batch delay fires.                                 *)
FairJob ==
  /\ WF_vars(\E k \in 1..MaxInvocations : RunNodes(k))
  /\ WF_vars(\E k \in 1..MaxInvocations : FetchSettles(k))
  /\ WF_vars(\E k \in 1..MaxInvocations : BatchSettled(k))
  /\ WF_vars(\E k \in 1..MaxInvocations : DelayElapsed(k))

SpecJobFair == SpecJob /\ FairJob

(* C25: every run of preFetchAllNodeStats that passed the guard eventually *)
(* ends with isRunning false, on every exit path (node discovery           *)
(* rejecting, no online node, fetches failing, completion), so that an     *)
(* invocation is skipped only while a run is in flight.                    *)
C25_RunEndsIdle ==
  /\ [](Len(runs) = 0 => ~isRunning)
  /\ []((jobHist.src # "none" /\ ~jobHist.entered) => jobHist.busy)
  /\ isRunning ~> (~isRunning /\ Len(runs) = 0)

C25_Witness ==
  /\ jobHist.invocations >= 2
  /\ jobHist.entered
  /\ ~jobHist.busy
  /\ Len(runs) = 1
  /\ runs[1].pc = "batch"

JobFetchesInFlight == SumSeq([k \in 1..Len(runs) |-> runs[k].pending])

(* C26: a run takes its online nodes in consecutive batches of at most 15; *)
(* the next batch is launched only when every fetch of the current one has *)
(* settled, so at most 15 fetches of the job are in flight; a failed fetch *)
(* stops neither the rest of its batch nor the later batches: a run that   *)
(* ends after its node list was read has launched and settled every node.  *)
C26_BatchesOfFifteen ==
  /\ [](/\ JobFetchesInFlight <= 15
        /\ \A k \in 1..Len(runs) :
             /\ runs[k].pending >= 0
             /\ runs[k].i % 15 = 0
             /\ runs[k].pc = "delay" => runs[k].pending = 0
             /\ runs[k].pc = "batch" =>
                  /\ runs[k].i < runs[k].online
                  /\ runs[k].pending <= runs[k].online - runs[k].i)
  /\ [][(Len(runs) = 1 /\ runs[1].pc \in {"batch", "delay"}) =>
          /\ (Len(runs') = 1 /\ runs'[1].i # runs[1].i) =>
               /\ runs[1].pending = 0
               /\ runs'[1].i = runs[1].i + 15
               /\ runs'[1].pending = IF runs[1].online - runs'[1].i < 15
                                       THEN runs[1].online - runs'[1].i ELSE 15
          /\ Len(runs') = 0 =>
               /\ runs[1].pending = 0
               /\ runs[1].i + 15 >= runs[1].online
       ]_vars

C26_Witness ==
  /\ Len(runs) = 1
  /\ runs[1].pc = "batch"
  /\ runs[1].i = 15
  /\ runs[1].failed
  /\ runs[1].pending = 1

----------------------------------------------------------------------------
(* SpecOverlap: two calls of getAllPNodes in flight at the same time.  Each *)
(* await of the function is a point where the other call may run; all of    *)
(* it happens within one cache window (the clock does not advance).         *)

\* what an upstream answers to a call of this specification
OverlapResponses == SeqsUpTo({PodX1, PodX2, PodY}, MaxPods)
OverlapAnswers == {[ok |-> FALSE]} \cup {[ok |-> TRUE, pods |-> r] : r \in OverlapResponses}

MaxLater == 2

TaskFrame == UNCHANGED <<redisClient, redisAvailable, conn, now, histVars, svcVars, jobVars, calc>>

\* the transport layer calls getAllPNodes
TaskStart(t) ==
  /\ tasks[t].pc = "idle"
  /\ tasks' = [tasks EXCEPT ![t].pc = "gap_get"]
  /\ UNCHANGED <<redisStore, localStore, later>>
  /\ TaskFrame

\* const cached = await nodeCacheService.get(CACHE_KEY); if (cached) return ...
TaskGet(t) ==
  /\ tasks[t].pc = "gap_get"
  /\ \E cmd \in CmdOutcomes :
       LET cached == RedisCacheServiceGet(nodeCacheService, CACHE_KEY, cmd) IN
       tasks' = [tasks EXCEPT ![t].pc = IF cached.raised \/ cached.found
                                          THEN "done" ELSE "disc_stats"]
  /\ UNCHANGED <<redisStore, localStore, later>>
  /\ TaskFrame

TaskAfter(t, s, i) ==
  [tasks EXCEPT ![t].disc = s.disc,
                ![t].seed = IF s.next = "seeds" THEN i ELSE 0,
                ![t].pc = CASE s.raised -> "done"
                            [] s.next = "pods" -> "disc_pods"
                            [] s.next = "seeds" -> "disc_seed"
                            [] OTHER -> "gap_set"]

\* prpcClient.getPodsWithStats()
TaskStats(t) ==
  /\ tasks[t].pc = "disc_stats"
  /\ \E r \in OverlapAnswers : tasks' = TaskAfter(t, discoverStatsStep(r, now), 1)
  /\ UNCHANGED <<redisStore, localStore, later>>
  /\ TaskFrame

\* prpcClient.getPods()
TaskPods(t) ==
  /\ tasks[t].pc = "disc_pods"
  /\ \E r \in OverlapAnswers : tasks' = TaskAfter(t, discoverPodsStep(r, now), 1)
  /\ UNCHANGED <<redisStore, localStore, later>>
  /\ TaskFrame

\* new PrpcClient(SEED_IPS[i]).getPods()
TaskSeed(t) ==
  /\ tasks[t].pc = "disc_seed"
  /\ \E r \in OverlapAnswers :
       tasks' = TaskAfter(t, discoverSeedStep(tasks[t].seed, r, now), tasks[t].seed + 1)
  /\ UNCHANGED <<redisStore, localStore, later>>
  /\ TaskFrame

\* deduplicate; await nodeCacheService.set(CACHE_KEY, uniqueNodes, CACHE_TTL_MS)
TaskSet(t) ==
  /\ tasks[t].pc = "gap_set"
  /\ \E cmd \in CmdOutcomes :
       LET uniqueNodes == dedupe(tasks[t].disc)
           r == RedisCacheServiceSet(nodeCacheService, CACHE_KEY, uniqueNodes,
                                     CACHE_TTL_MS, cmd) IN
       /\ redisStore' = r.redis
       /\ localStore' = r.local
       /\ tasks' = [tasks EXCEPT ![t].pc = "done", ![t].disc = <<>>,
                                 ![t].wrote = IF r.raised THEN Null ELSE Found(uniqueNodes)]
  /\ UNCHANGED later
  /\ TaskFrame

BothReturned == \A t \in 1..2 : tasks[t].pc = "done"

\* a call of getAllPNodes made after both have returned: the cache lookup
LaterGet ==
  /\ BothReturned
  /\ Cardinality(later) < MaxLater
  /\ \E cmd \in CmdOutcomes :
       LET cached == RedisCacheServiceGet(nodeCacheService, CACHE_KEY, cmd) IN
       /\ ~cached.raised
       /\ cached.found
       /\ later' = later \cup {enrichNodesWithCachedStats(cached.value, cmd)}
  /\ UNCHANGED <<redisStore, localStore, tasks>>
  /\ TaskFrame

RedisHealth ==
  \/ InitRedis
  \/ RedisError
  \/ RedisReconnecting
  \/ RedisConnect

NextOverlap ==
  \/ \E t \in 1..2 : TaskStart(t)
  \/ \E t \in 1..2 : TaskGet(t)
  \/ \E t \in 1..2 : TaskStats(t)
  \/ \E t \in 1..2 : TaskPods(t)
  \/ \E t \in 1..2 : TaskSeed(t)
  \/ \E t \in 1..2 : TaskSet(t)
  \/ LaterGet
  \/ RedisHealth

SpecOverlap == Init /\ [][NextOverlap]_vars

\* the deduplicated lists the two rounds produced
RoundLists == {tasks[t].wrote.value : t \in {u \in 1..2 : tasks[u].wrote # Null}}

BothDiscovered == BothReturned /\ \A t \in 1..2 : tasks[t].wrote # Null

\* C27: when two calls of getAllPNodes overlap on a cache miss and each has
\* run its own discovery round, then after both have completed the node-list
\* entry holds the deduplicated result of exactly one of the two rounds, and
\* the calls made afterwards within the TTL all return that list
C27_LastWriterWins ==
  BothDiscovered =>
    \E w \in RoundLists : later \subseteq {w}

----------------------------------------------------------------------------
(* Claims about getTopNodes and getExtendedSummary, checked under SpecAnalytics *)

NonIncreasing(top) == \A i \in 1..(Len(top) - 1) : top[i].healthScore >= top[i + 1].healthScore

\* the node-metrics collection held by the in-process tier
CachedNodeMetrics ==
  IF NODE_METRICS_CACHE_KEY \in DOMAIN localStore
    THEN Found(localStore[NODE_METRICS_CACHE_KEY].value)
    ELSE Null

\* C28: getTopNodes returns at most 10 entries, in non-increasing order of
\* healthScore, and leaves the cached node-metrics collection as it was: the
\* entries getNodeMetrics is served from the cache are the same, in the same
\* order, before and after a getTopNodes call
C28_TopNodesLeavesMetricsUnchanged ==
  /\ []((result.op = "getTopNodes" /\ ~result.raised) =>
          (Len(result.value) <= 10 /\ NonIncreasing(result.value)))
  /\ [][(pc = "top_metrics" /\ CachedNodeMetrics.found) =>
          CachedNodeMetrics' = CachedNodeMetrics]_vars

\* C29: the onlinePercentage of getExtendedSummary lies in [0, 100] and is
\* the one getAnalyticsSummary computes from the node list the call read,
\* whatever the node-list entry and the node-metrics entry hold
C29_ExtendedOnlinePercentage ==
  [][(pc = "ext_nodes" /\ ~rv.raised /\ pc' # pc) =>
       /\ rv'.value.onlinePercentage \in 0..10000
       /\ rv'.value.onlinePercentage = AnalyticsSummaryOf(rv.value, <<>>, now).onlinePercentage
    ]_vars

----------------------------------------------------------------------------
(* SpecRounds: as Spec, with one more call per behaviour, so that a round  *)
(* can follow a refresh that follows a round                               *)

MaxRounds == 3

NextRounds ==
  \/ \E o \in DiscoveryOps : StartUpTo(o, MaxRounds)
  \/ RefreshDelete
  \/ GetAllPNodesSteps
  \/ RetTop
  \/ Environment

SpecRounds == Init /\ [][NextRounds]_vars

\* the in-process tier holds an empty node list whose time to live is not over
EmptyListCached ==
  /\ CACHE_KEY \in DOMAIN localStore
  /\ localStore[CACHE_KEY].value = <<>>
  /\ now < localStore[CACHE_KEY].exp

\* C30: a discovery round that found nothing writes the empty list to the
\* node-list cache with the TTL of 30 s, and while that entry lives every
\* call of getAllPNodes returns the empty list from its cache lookup,
\* without a gossip call
C30_EmptyListIsCached ==
  [][/\ (pc = "gap_set" /\ disc = <<>> /\ pc' # pc) =>
          /\ CACHE_KEY \in DOMAIN localStore'
          /\ localStore'[CACHE_KEY] = [value |-> <<>>, exp |-> now + CACHE_TTL_MS]
     /\ (pc = "gap_get" /\ op = "getAllPNodes" /\ EmptyListCached /\ pc' # pc) =>
          /\ pc' = "ret_top"
          /\ rv' = Found(<<>>)
    ]_vars

====
